---- MODULE Spec2Model ----
(***************************************************************************)
(* Verification model of the offline raster tools of Wonder.io:            *)
(*   - tools/cutout_border_only.js : cutoutBorderOnly (border flood fill,  *)
(*     feather, alpha assignment, blur/threshold cleanup, largest          *)
(*     component, despeckle);                                              *)
(*   - tools/add_second_edge.js (src/unnamed/part_005): the two-pass       *)
(*     chamfer distance field of main.                                     *)
(* Buffers are functions over the pixel indices 0..W*H-1 (row-major), as   *)
(* in the code; a pixel of an RGBA buffer is the tuple <<r, g, b, a>>.     *)
(***************************************************************************)
EXTENDS Integers, Sequences, FiniteSets, TLC

VARIABLES
    pc,               \* position inside cutoutBorderOnly
    W, H,             \* info.width, info.height
    data,             \* decoded RGBA input (after the pre-blur)
    tolArg, featherArg,   \* the arguments as passed by the caller
    tolerance, feather,   \* the effective parameters (lines 22-23)
    nearWhite,        \* Uint8Array(W*H), step 2
    bg,               \* Uint8Array(W*H), steps 3 and 4
    out,              \* Buffer, step 5
    blurKind,         \* which result the external blur of step 6 produced
    cleanedImage,     \* Buffer, steps 6-7
    components,       \* array of pixel sets, step 8
    largestComponent, \* [isNull, pixels], step 8
    final,            \* Buffer, step 9
    despeckled,       \* Buffer, step 10
    cpc,              \* position inside add_second_edge's distance field
    newW, newH,       \* expanded canvas of add_second_edge
    mask,             \* Uint8Array(newW*newH)
    df,               \* Float32Array(newW*newH)
    offsetPx, edgePx, \* add_second_edge: ring geometry
    ringA,            \* Uint8Array(newW*newH), ring alpha
    spc,              \* position inside makeStickerBorder
    variant,          \* "raster", "vectorSmooth" or "falloff"
    srcW, srcH,       \* info.width, info.height of the sticker source
    srcData,          \* decoded RGBA of the sticker source
    strokeArg, softArg,   \* arguments as passed
    strokePx, softness,   \* effective parameters (softness in tenths)
    rgba,             \* off-white normalised copy of srcData
    canvasW, canvasH, \* newW, newH of makeStickerBorder
    expandedData,     \* Buffer(newW*newH*4)
    distanceField,    \* Float32Array(newW*newH)
    passAt,           \* number of pixels the running pass has updated
    borderData,       \* Buffer(newW*newH*4), the result
    bpc,              \* position inside add_bevel's main
    bevW, bevH,       \* meta.width, meta.height
    bevAlpha,         \* alpha channel of the decoded rgba
    bevelPx, lightDir, intensity,  \* parseArgs' result (intensity in twentieths)
    kernel,           \* which smoothing the external blur applied
    rimR,             \* r, the number of erosions
    alphaMask, eroded, erosions, rimMask,
    height,           \* blurred alpha, in units of one mask pixel
    gx, gy,           \* Sobel gradients
    shadowRGBA, highlightRGBA,
    apc,              \* "start" before, "parsed" after a tool read its arguments
    tool,             \* which tool is called
    argv,             \* the arguments as passed, one field per parameter
    params,           \* the effective parameters
    dpc,              \* position inside a batch driver
    driver,           \* which batch driver runs
    fsFiles,          \* the files of the folder
    written,          \* how often each output file has been written
    remaining,        \* the entries of the directory listing not yet visited
    totalProcessed, totalSkipped, totalErrors,
    run,              \* 1 for the first batch run, 2 for the one right after
    firstRun,         \* the totals of the first run
    writtenBefore,    \* `written` when the current run started
    readable,         \* whether fs.readdir of the current folder succeeds
    pending,          \* the folders after the current one
    listed,           \* source files in the listings read so far in this run
    failedReads,      \* folders whose listing could not be read in this run
    zpc,              \* position inside the allocations of a tool
    sizeTool,         \* the tool whose buffers are followed
    imgW, imgH,       \* info.width, info.height of its decoded input
    strokeIn,         \* makeStickerBorder's strokePx as passed, in tenths
    buffers,          \* the buffers of the tool, each with its declared size
    fpc,              \* position inside the flood fill taken in any order
    floodW, floodH,   \* W, H of its image
    floodNear,        \* its nearWhite mask
    work,             \* bg and the worklist q
    pushed,           \* how often each pixel has been pushed onto q
    offered,          \* how many pushIf calls the seeding loops have made
    hotspots,         \* App's hotspot list, as displayed
    activeTool,       \* App's active tool
    editingHotspot,   \* RightEditPanel's edit form
    replacingHotspot, \* window.replacingHotspot
    stored,           \* the hotspots of the backend store
    nextId,           \* the id the backend assigns next
    created,          \* number of lassos completed
    lassoFrom,        \* the button that activated the lasso
    undisturbed,      \* no list operation since the last re-select
    failures,         \* number of API calls that failed
    typed,            \* number of label edits typed
    last,             \* the handler that ran last, with what it found
    disk,             \* hotspots.json and selections.json of the store
    clockMs,          \* Date.now() of the server
    reqs,             \* the requests the server has received
    served,           \* the requests in the order of their store calls
    writes,           \* number of writeFileSync calls made
    disk0             \* the files when the server started

cutoutVars == <<pc, W, H, data, tolArg, featherArg, tolerance, feather,
                nearWhite, bg, out, blurKind, cleanedImage, components,
                largestComponent, final, despeckled>>
chamferVars == <<cpc, newW, newH, mask, df, offsetPx, edgePx, ringA>>
stickerVars == <<spc, variant, srcW, srcH, srcData, strokeArg, softArg,
                 strokePx, softness, rgba, canvasW, canvasH, expandedData,
                 distanceField, passAt, borderData>>
bevelVars == <<bpc, bevW, bevH, bevAlpha, bevelPx, lightDir, intensity, kernel,
               rimR, alphaMask, eroded, erosions, rimMask, height, gx, gy,
               shadowRGBA, highlightRGBA>>
argVars == <<apc, tool, argv, params>>
batchVars == <<dpc, driver, fsFiles, written, remaining, totalProcessed,
               totalSkipped, totalErrors, run, firstRun, writtenBefore,
               readable, pending, listed, failedReads>>
sizeVars == <<zpc, sizeTool, imgW, imgH, strokeIn, buffers>>
floodVars == <<fpc, floodW, floodH, floodNear, work, pushed, offered>>
editorVars == <<hotspots, activeTool, editingHotspot, replacingHotspot,
    stored, nextId, created, lassoFrom, undisturbed, failures, typed,
    last>>
storeVars == <<disk, clockMs, reqs, served, writes, disk0>>
vars == <<cutoutVars, chamferVars, stickerVars, bevelVars, argVars,
    batchVars, sizeVars, floodVars, editorVars, storeVars>>
\* what the actions of one tool leave alone
notCutout == <<chamferVars, stickerVars, bevelVars, argVars, batchVars,
    sizeVars, floodVars, editorVars, storeVars>>
notChamfer == <<cutoutVars, stickerVars, bevelVars, argVars, batchVars,
    sizeVars, floodVars, editorVars, storeVars>>
notSticker == <<cutoutVars, chamferVars, bevelVars, argVars, batchVars,
    sizeVars, floodVars, editorVars, storeVars>>
notBevel == <<cutoutVars, chamferVars, stickerVars, argVars, batchVars,
    sizeVars, floodVars, editorVars, storeVars>>
notBatch == <<cutoutVars, chamferVars, stickerVars, bevelVars, argVars,
    sizeVars, floodVars, editorVars, storeVars>>
notArgs == <<cutoutVars, chamferVars, stickerVars, bevelVars, batchVars,
    sizeVars, floodVars, editorVars, storeVars>>
notSizes == <<cutoutVars, chamferVars, stickerVars, bevelVars, argVars,
    batchVars, floodVars, editorVars, storeVars>>
notFlood == <<cutoutVars, chamferVars, stickerVars, bevelVars, argVars,
    batchVars, sizeVars, editorVars, storeVars>>
notEditor == <<cutoutVars, chamferVars, stickerVars, bevelVars, argVars,
    batchVars, sizeVars, floodVars, storeVars>>
notStore == <<cutoutVars, chamferVars, stickerVars, bevelVars, argVars,
    batchVars, sizeVars, floodVars, editorVars>>

----------------------------------------------------------------------------
(* Bounds of the model *)

\* canvas of the exhaustively enumerated small images
MaxW == 3
MaxH == 3
\* canvas of the two-blob images (two blocks of columns and a separator)
BlobW == 7
BlobH == 4
\* latest column-major start of a blob inside its block
MaxStart == 3
\* canvas and number of subject pixels of the distance-field masks
ChamferW == 5
ChamferH == 4
StripW == 14
MaxSeeds == 2
\* source image and stroke width of the sticker border
StickerW == 2
StickerH == 2
MaxStroke == 2
\* image and rim thickness of the bevel
BevelW == 3
BevelH == 3
MaxBevelPx == 2
\* consecutive runs of a batch driver
Runs == 2
\* folders of one batch run, and files of its first folder
MaxFolders == 3
MaxFirstFiles == 2
\* width and height of the images whose buffer sizes are followed
MaxDim == 3
\* canvas of the flood fill taken in any order
FloodW == 3
FloodH == 3
\* canvas and number of dark pixels of the images that are feathered
FeatherW == 6
FeatherH == 5
MaxHoles == 2

----------------------------------------------------------------------------
(* Helpers *)

Max(a, b) == IF a >= b THEN a ELSE b
Min(a, b) == IF a <= b THEN a ELSE b
Abs(n) == IF n < 0 THEN 0 - n ELSE n

Pixels(w, h) == 0 .. (w * h - 1)

\* the subsets of P with at most k elements
RECURSIVE SetsUpTo(_, _)
SetsUpTo(k, P) ==
    IF k = 0 THEN {{}}
    ELSE LET smaller == SetsUpTo(k - 1, P)
         IN  smaller \cup {S \cup {i} : S \in smaller, i \in P}
XOf(i, w) == i % w
YOf(i, w) == i \div w

\* An argument as the caller passes it: absent (undefined), non-numeric
\* (NaN under unary +) or a number.
Undefined == [t |-> "undefined", v |-> 0]
NaN == [t |-> "nan", v |-> 0]
Num(n) == [t |-> "num", v |-> n]

----------------------------------------------------------------------------
(* cutoutBorderOnly: parameters (lines 21-24) *)

DefaultTolerance == 220
DefaultFeather == 2

\* a conversion that keeps a passed 0
NumberOrKeepZero(arg, d) ==
    IF arg.t = "undefined" THEN d
    ELSE IF arg.t = "nan" THEN d
    ELSE arg.v

\* `+x || d` after the default parameter value d has replaced undefined:
\* NaN and 0 are falsy and give d.
NumberOr(arg, d) ==
    IF arg.t = "undefined" THEN d
    ELSE IF arg.t = "nan" THEN d
    ELSE IF arg.v = 0 THEN d
    ELSE arg.v

EffTolerance(arg) == Max(0, Min(255, NumberOr(arg, DefaultTolerance)))
EffFeather(arg) == Max(0, Min(5, NumberOr(arg, DefaultFeather)))
\* line 24, in tenths
DefaultPreblur == 6
EffPreblur(arg) == Max(0, Min(20, NumberOr(arg, DefaultPreblur)))

----------------------------------------------------------------------------
(* Step 2: near-white mask (lines 40-47) *)

\* luminance = 0.299 r + 0.587 g + 0.114 b, compared in thousandths
Luminance1000(px) == 299 * px[1] + 587 * px[2] + 114 * px[3]

MarkNearWhite(d, tol) ==
    [i \in DOMAIN d |-> IF Luminance1000(d[i]) >= 1000 * tol THEN 1 ELSE 0]

----------------------------------------------------------------------------
(* Step 3: flood fill from the borders (lines 49-77) *)

\* a pushIf that does not test bg[i]
PushIfAgain(st, i, nw) ==
    IF i >= 0 /\ i < st.n /\ nw[i] = 1
    THEN [st EXCEPT !.bg[i] = 1, !.q = Append(st.q, i)]
    ELSE st

\* pushIf of line 52, on the pair of the mask and the worklist
PushIf(st, i, nw) ==
    IF i >= 0 /\ i < st.n /\ nw[i] = 1 /\ st.bg[i] = 0
    THEN [st EXCEPT !.bg[i] = 1, !.q = Append(st.q, i)]
    ELSE st

RECURSIVE PushAll(_, _, _)
PushAll(st, is, nw) ==
    IF is = <<>> THEN st
    ELSE PushAll(PushIf(st, Head(is), nw), Tail(is), nw)

\* the indices the two seeding loops of lines 60-67 offer, in order
RECURSIVE TopBottom(_, _, _)
TopBottom(x, w, h) ==
    IF x >= w THEN <<>>
    ELSE <<x, (h - 1) * w + x>> \o TopBottom(x + 1, w, h)

RECURSIVE LeftRight(_, _, _)
LeftRight(y, w, h) ==
    IF y >= h THEN <<>>
    ELSE <<y * w, y * w + (w - 1)>> \o LeftRight(y + 1, w, h)

SeedOrder(w, h) == TopBottom(0, w, h) \o LeftRight(0, w, h)

\* a fill that never looks at the pixel above
FloodNeighboursNoUp(i, w, h) ==
    LET y == i \div w
        x == i - y * w
    IN  (IF x > 0 THEN <<i - 1>> ELSE <<>>)
        \o (IF x < w - 1 THEN <<i + 1>> ELSE <<>>)
        \o (IF y < h - 1 THEN <<i + w>> ELSE <<>>)

\* the neighbours line 73-76 offer for the popped index i
FloodNeighbours(i, w, h) ==
    LET y == i \div w
        x == i - y * w
    IN  (IF x > 0 THEN <<i - 1>> ELSE <<>>)
        \o (IF x < w - 1 THEN <<i + 1>> ELSE <<>>)
        \o (IF y > 0 THEN <<i - w>> ELSE <<>>)
        \o (IF y < h - 1 THEN <<i + w>> ELSE <<>>)

\* the while loop of lines 70-77: q.pop() takes the last element
RECURSIVE FloodLoop(_, _, _, _)
FloodLoop(st, nw, w, h) ==
    IF st.q = <<>> THEN st.bg
    ELSE LET i == st.q[Len(st.q)]
             rest == [st EXCEPT !.q = SubSeq(st.q, 1, Len(st.q) - 1)]
         IN  FloodLoop(PushAll(rest, FloodNeighbours(i, w, h), nw), nw, w, h)

FloodFill(nw, w, h) ==
    LET st0 == [bg |-> [i \in Pixels(w, h) |-> 0], q |-> <<>>, n |-> w * h]
    IN  FloodLoop(PushAll(st0, SeedOrder(w, h), nw), nw, w, h)

----------------------------------------------------------------------------
(* Step 4: feather / erosion (lines 79-108) *)

\* a test that looks along the row and the column of the pixel only
ContractCross(b, r, w, h) ==
    [i \in Pixels(w, h) |->
        LET x == XOf(i, w)
            y == YOf(i, w)
        IN  IF b[i] = 1
               /\ \A d \in (0 - r) .. r :
                     /\ y + d >= 0 /\ y + d < h /\ b[(y + d) * w + x] = 1
                     /\ x + d >= 0 /\ x + d < w /\ b[y * w + (x + d)] = 1
            THEN 1 ELSE 0]

Contract(b, r, w, h) ==
    [i \in Pixels(w, h) |->
        LET x == XOf(i, w)
            y == YOf(i, w)
        IN  IF b[i] = 1
               /\ \A dy \in (0 - r) .. r :
                     /\ y + dy >= 0 /\ y + dy < h
                     /\ \A dx \in (0 - r) .. r :
                           /\ x + dx >= 0 /\ x + dx < w
                           /\ b[(y + dy) * w + (x + dx)] = 1
            THEN 1 ELSE 0]

Feather(b, r, w, h) == IF r > 0 THEN Contract(b, r, w, h) ELSE b

----------------------------------------------------------------------------
(* Step 5: output alpha (lines 110-118) *)

SetAlpha(px, a) == <<px[1], px[2], px[3], a>>

\* an alpha assignment without the else branch of lines 115-117
AssignAlphaBgOnly(d, b) ==
    [i \in DOMAIN d |-> IF b[i] = 1 THEN SetAlpha(d[i], 0) ELSE d[i]]

AssignAlpha(d, b) ==
    [i \in DOMAIN d |->
        IF b[i] = 1 THEN SetAlpha(d[i], 0)
        ELSE IF d[i][4] = 0 THEN SetAlpha(d[i], 255)
        ELSE d[i]]

----------------------------------------------------------------------------
(* Step 6: sharp's blur(0.4) of the output (lines 120-124).  The blur is    *)
(* the image library's: a Gaussian of sigma 0.4.  Its result is one of two  *)
(* outcomes here: the buffer unchanged (the kernel degenerates to one tap), *)
(* or every channel replaced by the mean of the 3x3 window inside the      *)
(* image.                                                                  *)

BlurKinds == {"identity", "box"}

Window(i, w, h) ==
    LET x == XOf(i, w)
        y == YOf(i, w)
    IN  {(y + dy) * w + (x + dx) : dy \in {d \in -1 .. 1 : y + d >= 0 /\ y + d < h},
                                    dx \in {d \in -1 .. 1 : x + d >= 0 /\ x + d < w}}

RECURSIVE SumChannel(_, _, _)
SumChannel(buf, S, c) ==
    IF S = {} THEN 0
    ELSE LET j == CHOOSE k \in S : TRUE
         IN  buf[j][c] + SumChannel(buf, S \ {j}, c)

BoxMean(buf, i, c, w, h) ==
    SumChannel(buf, Window(i, w, h), c) \div Cardinality(Window(i, w, h))

Blur(kind, buf, w, h) ==
    IF kind = "identity" THEN buf
    ELSE [i \in DOMAIN buf |->
            <<BoxMean(buf, i, 1, w, h), BoxMean(buf, i, 2, w, h),
              BoxMean(buf, i, 3, w, h), BoxMean(buf, i, 4, w, h)>>]

----------------------------------------------------------------------------
(* Step 7: alpha threshold after the blur (lines 126-136) *)

ThresholdAlpha(buf) ==
    [i \in DOMAIN buf |->
        IF buf[i][4] < 30 THEN SetAlpha(buf[i], 0)
        ELSE IF buf[i][4] > 220 THEN SetAlpha(buf[i], 255)
        ELSE buf[i]]

----------------------------------------------------------------------------
(* Step 8: connected components of the opaque mask (lines 138-196) *)

OpaqueMask(buf) == [i \in DOMAIN buf |-> IF buf[i][4] > 128 THEN 1 ELSE 0]

\* the in-image 8-neighbours of curr in the order of the dy, dx loops
RECURSIVE NeighbourSeq(_, _, _, _)
NeighbourSeq(curr, k, w, h) ==
    IF k > 8 THEN <<>>
    ELSE LET dy == (k \div 3) - 1
             dx == (k % 3) - 1
             ny == (curr \div w) + dy
             nx == (curr % w) + dx
         IN  (IF (dx = 0 /\ dy = 0) \/ ny < 0 \/ ny >= h \/ nx < 0 \/ nx >= w
              THEN <<>> ELSE <<ny * w + nx>>)
             \o NeighbourSeq(curr, k + 1, w, h)

\* lines 172-176 for each neighbour: mark and enqueue the unvisited opaque
RECURSIVE Enqueue(_, _, _)
Enqueue(st, ns, opaque) ==
    IF ns = <<>> THEN st
    ELSE LET ni == Head(ns)
         IN  IF opaque[ni] = 0 \/ st.visited[ni] = 1
             THEN Enqueue(st, Tail(ns), opaque)
             ELSE Enqueue([st EXCEPT !.visited[ni] = 1, !.queue = Append(st.queue, ni)],
                          Tail(ns), opaque)

\* the while loop of lines 158-179: queue.shift() takes the first element
RECURSIVE ComponentLoop(_, _, _, _)
ComponentLoop(st, opaque, w, h) ==
    IF st.queue = <<>> THEN st
    ELSE LET curr == Head(st.queue)
             st1 == [st EXCEPT !.queue = Tail(st.queue),
                               !.component = st.component \cup {curr}]
         IN  ComponentLoop(Enqueue(st1, NeighbourSeq(curr, 0, w, h), opaque),
                           opaque, w, h)

MinComponentSize == 10

\* line 181: only a component of more than 10 pixels is recorded
KeepComponent(component) == Cardinality(component) > MinComponentSize

\* the scan of lines 148-185 from index i on
RECURSIVE ScanComponents(_, _, _, _, _, _)
ScanComponents(i, visited, comps, opaque, w, h) ==
    IF i >= w * h THEN comps
    ELSE IF opaque[i] = 0 \/ visited[i] = 1
         THEN ScanComponents(i + 1, visited, comps, opaque, w, h)
         ELSE LET st == ComponentLoop([visited |-> [visited EXCEPT ![i] = 1],
                                        queue |-> <<i>>, component |-> {}],
                                       opaque, w, h)
              IN  ScanComponents(i + 1, st.visited,
                                 IF KeepComponent(st.component)
                                 THEN Append(comps, st.component) ELSE comps,
                                 opaque, w, h)

FindComponents(opaque, w, h) ==
    ScanComponents(0, [i \in Pixels(w, h) |-> 0], <<>>, opaque, w, h)

NoComponent == [isNull |-> TRUE, pixels |-> {}]

\* line 192: a later component replaces the current one only when larger
Larger(component, maxSize) == Cardinality(component) > maxSize

\* lines 187-196
RECURSIVE LargestFrom(_, _, _, _)
LargestFrom(comps, k, best, maxSize) ==
    IF k > Len(comps) THEN best
    ELSE IF Larger(comps[k], maxSize)
         THEN LargestFrom(comps, k + 1, [isNull |-> FALSE, pixels |-> comps[k]],
                          Cardinality(comps[k]))
         ELSE LargestFrom(comps, k + 1, best, maxSize)

FindLargest(comps) == LargestFrom(comps, 1, NoComponent, 0)

----------------------------------------------------------------------------
(* Step 9: keep only the largest component (lines 198-210) *)

KeepLargest(buf, largest) ==
    IF largest.isNull THEN buf
    ELSE [i \in DOMAIN buf |->
            IF buf[i][4] > 50 /\ i \notin largest.pixels
            THEN SetAlpha(buf[i], 0) ELSE buf[i]]

----------------------------------------------------------------------------
(* Step 10: despeckle (lines 212-238) *)

\* lines 222-231: neighbours of the pre-pass image with alpha < 50
TransparentNeighbours(buf, i, w, h) ==
    Cardinality({j \in Window(i, w, h) \ {i} : buf[j][4] < 50})

DespeckleLimit == 6

\* a despeckle that already fires at one transparent neighbour fewer
DespeckleEarly(buf, w, h) ==
    [i \in DOMAIN buf |->
        LET x == XOf(i, w)
            y == YOf(i, w)
        IN  IF /\ y >= 1 /\ y < h - 1 /\ x >= 1 /\ x < w - 1
               /\ ~(buf[i][4] < 50)
               /\ TransparentNeighbours(buf, i, w, h) >= DespeckleLimit - 1
            THEN SetAlpha(buf[i], 0) ELSE buf[i]]

\* a despeckle that counts in the buffer it is writing
RECURSIVE DespeckleFrom(_, _, _, _)
DespeckleFrom(buf, i, w, h) ==
    IF i >= w * h THEN buf
    ELSE LET x == XOf(i, w)
             y == YOf(i, w)
             clear == /\ y >= 1 /\ y < h - 1 /\ x >= 1 /\ x < w - 1
                      /\ ~(buf[i][4] < 50)
                      /\ TransparentNeighbours(buf, i, w, h) >= DespeckleLimit
         IN  DespeckleFrom(IF clear THEN [buf EXCEPT ![i] = SetAlpha(buf[i], 0)] ELSE buf,
                           i + 1, w, h)
DespeckleInPlace(buf, w, h) == DespeckleFrom(buf, 0, w, h)

Despeckle(buf, w, h) ==
    [i \in DOMAIN buf |->
        LET x == XOf(i, w)
            y == YOf(i, w)
        IN  IF /\ y >= 1 /\ y < h - 1 /\ x >= 1 /\ x < w - 1
               /\ ~(buf[i][4] < 50)
               /\ TransparentNeighbours(buf, i, w, h) >= DespeckleLimit
            THEN SetAlpha(buf[i], 0) ELSE buf[i]]

----------------------------------------------------------------------------
(* add_second_edge: distance field (lines 57-87).  A distance is kept as    *)
(* the exact number d * sqrt(2) + s, written [inf, d, s]; INF = 1e9 is      *)
(* [inf |-> TRUE], and INF plus a weight never wins a Math.min.            *)

INF == [inf |-> TRUE, d |-> 0, s |-> 0]
Dist(d, s) == [inf |-> FALSE, d |-> d, s |-> s]
PlusOne(v) == IF v.inf THEN v ELSE Dist(v.d, v.s + 1)
PlusSqrt2(v) == IF v.inf THEN v ELSE Dist(v.d + 1, v.s)

\* a.d * sqrt2 + a.s <= b.d * sqrt2 + b.s, decided on the integers
LessEq(a, b) ==
    IF b.inf THEN TRUE
    ELSE IF a.inf THEN FALSE
    ELSE LET p == a.d - b.d
             q == b.s - a.s
         IN  IF p <= 0 /\ q >= 0 THEN TRUE
             ELSE IF p > 0 /\ q <= 0 THEN FALSE
             ELSE IF p > 0 THEN 2 * p * p <= q * q
             ELSE 2 * p * p >= q * q

MathMin(a, b) == IF LessEq(a, b) THEN a ELSE b

\* line 59
MaskFromAlpha(alpha) == [i \in DOMAIN alpha |-> IF alpha[i] > 0 THEN 1 ELSE 0]

\* lines 62-64
SeedField(m) == [i \in DOMAIN m |-> IF m[i] = 1 THEN Dist(0, 0) ELSE INF]

\* a forward relaxation that leaves out the up-right neighbour
ForwardRelaxNoUpRight(f, i, w, h) ==
    LET y == i \div w
        x == i % w
        a0 == f[i]
        a1 == IF y > 0 THEN MathMin(a0, PlusOne(f[(y - 1) * w + x])) ELSE a0
        a2 == IF y > 0 /\ x > 0
              THEN MathMin(a1, PlusSqrt2(f[(y - 1) * w + (x - 1)])) ELSE a1
    IN  IF x > 0 THEN MathMin(a2, PlusOne(f[y * w + (x - 1)])) ELSE a2

\* lines 69-74: the new value of df[i] in the forward pass
ForwardRelax(f, i, w, h) ==
    LET y == i \div w
        x == i % w
        a0 == f[i]
        a1 == IF y > 0 THEN MathMin(a0, PlusOne(f[(y - 1) * w + x])) ELSE a0
        a2 == IF y > 0 /\ x > 0
              THEN MathMin(a1, PlusSqrt2(f[(y - 1) * w + (x - 1)])) ELSE a1
        a3 == IF y > 0 /\ x + 1 < w
              THEN MathMin(a2, PlusSqrt2(f[(y - 1) * w + (x + 1)])) ELSE a2
    IN  IF x > 0 THEN MathMin(a3, PlusOne(f[y * w + (x - 1)])) ELSE a3

\* lines 80-85: the new value of df[i] in the backward pass
BackwardRelax(f, i, w, h) ==
    LET y == i \div w
        x == i % w
        a0 == f[i]
        a1 == IF y + 1 < h THEN MathMin(a0, PlusOne(f[(y + 1) * w + x])) ELSE a0
        a2 == IF y + 1 < h /\ x > 0
              THEN MathMin(a1, PlusSqrt2(f[(y + 1) * w + (x - 1)])) ELSE a1
        a3 == IF y + 1 < h /\ x + 1 < w
              THEN MathMin(a2, PlusSqrt2(f[(y + 1) * w + (x + 1)])) ELSE a2
    IN  IF x + 1 < w THEN MathMin(a3, PlusOne(f[y * w + (x + 1)])) ELSE a3

\* lines 66-76: rows top to bottom, columns left to right, in place
RECURSIVE ForwardFrom(_, _, _, _)
ForwardFrom(f, i, w, h) ==
    IF i >= w * h THEN f
    ELSE ForwardFrom([f EXCEPT ![i] = ForwardRelax(f, i, w, h)], i + 1, w, h)
ForwardPass(f, w, h) == ForwardFrom(f, 0, w, h)

\* lines 77-87: rows bottom to top, columns right to left, in place
RECURSIVE BackwardFrom(_, _, _, _)
BackwardFrom(f, i, w, h) ==
    IF i < 0 THEN f
    ELSE BackwardFrom([f EXCEPT ![i] = BackwardRelax(f, i, w, h)], i - 1, w, h)
BackwardPass(f, w, h) == BackwardFrom(f, w * h - 1, w, h)

----------------------------------------------------------------------------
(* add_second_edge: ring alpha (lines 89-96) *)

\* a ring test that also admits the inner radius itself
InRingClosed(m, d, inner, outer) ==
    m = 0 /\ LessEq(Dist(0, inner), d) /\ LessEq(d, Dist(0, outer))

\* mask[i] === 0 && d > inner && d <= outer
InRing(m, d, inner, outer) ==
    m = 0 /\ ~LessEq(d, Dist(0, inner)) /\ LessEq(d, Dist(0, outer))

RingAlpha(m, f, inner, outer) ==
    [i \in DOMAIN m |-> IF InRing(m[i], f[i], inner, outer) THEN 255 ELSE 0]

----------------------------------------------------------------------------
(* Input images *)

Wh == <<255, 255, 255, 255>>    \* white, opaque
WhT == <<255, 255, 255, 0>>     \* white, transparent
Gy == <<230, 230, 230, 255>>    \* light grey, opaque
Bk == <<0, 0, 0, 255>>          \* black, opaque
BkHalf == <<0, 0, 0, 100>>      \* black, alpha 100
Tr == <<0, 0, 0, 0>>            \* black, transparent

\* the two pixel values of an image: <<value of bit 0, value of bit 1>>
Palettes == {<<Wh, Bk>>, <<Wh, Tr>>, <<Wh, BkHalf>>, <<WhT, Bk>>, <<Tr, Bk>>, <<Gy, Bk>>}

\* every two-valued image of w x h pixels
SmallImages(w, h) ==
    {[i \in Pixels(w, h) |-> pal[bits[i] + 1]] :
        pal \in Palettes, bits \in [Pixels(w, h) -> {0, 1}]}

TolArgs == {Undefined, Num(0), Num(255)}
FeatherArgs == {Undefined, Num(-1), Num(1)}

\* Two black blobs on white, one in the columns left of a white separator
\* column and one right of it; a blob is the cells of its block whose
\* column-major position is in s .. s+n-1.
LeftW == (BlobW - 1) \div 2
InBlob(x, y, x0, s, n) ==
    LET k == (x - x0) * BlobH + y
    IN  x >= x0 /\ k >= s /\ k < s + n
BlobImage(sL, nL, sR, nR) ==
    [i \in Pixels(BlobW, BlobH) |->
        LET x == XOf(i, BlobW)
            y == YOf(i, BlobW)
        IN  IF x < LeftW /\ InBlob(x, y, 0, sL, nL) THEN Bk
            ELSE IF x > LeftW /\ InBlob(x, y, LeftW + 1, sR, nR) THEN Bk
            ELSE Wh]
BlobImages ==
    {BlobImage(sL, nL, sR, nR) :
        sL \in 0 .. MaxStart, nL \in 0 .. (LeftW * BlobH),
        sR \in 0 .. MaxStart, nR \in 0 .. ((BlobW - LeftW - 1) * BlobH)}

----------------------------------------------------------------------------
(* cutoutBorderOnly as a state machine *)

Unset == <<>>

CutoutIdle ==
    /\ pc = "idle" /\ W = 0 /\ H = 0 /\ data = Unset
    /\ tolArg = Undefined /\ featherArg = Undefined
    /\ tolerance = 0 /\ feather = 0
    /\ nearWhite = Unset /\ bg = Unset /\ out = Unset
    /\ blurKind = "none" /\ cleanedImage = Unset
    /\ components = <<>> /\ largestComponent = NoComponent
    /\ final = Unset /\ despeckled = Unset

ChamferIdle ==
    /\ cpc = "idle" /\ newW = 0 /\ newH = 0 /\ mask = Unset /\ df = Unset
    /\ offsetPx = 0 /\ edgePx = 0 /\ ringA = Unset

\* a tool's parameters, as arguments and as effective values
NoArgs ==
    [strokePx |-> Undefined, softness |-> Undefined, bevelPx |-> Undefined,
     lightDir |-> Undefined, intensity |-> Undefined, tolerance |-> Undefined,
     feather |-> Undefined, preblur |-> Undefined]
ArgsIdle == apc = "idle" /\ tool = "none" /\ argv = NoArgs /\ params = NoArgs

NoTotals == [processed |-> 0, skipped |-> 0, errors |-> 0]
BatchIdle ==
    /\ dpc = "idle" /\ driver = "none" /\ fsFiles = {} /\ written = <<>>
    /\ remaining = {} /\ totalProcessed = 0 /\ totalSkipped = 0
    /\ totalErrors = 0 /\ run = 0 /\ firstRun = NoTotals /\ writtenBefore = <<>>
    /\ readable = FALSE /\ pending = <<>> /\ listed = 0 /\ failedReads = 0

SizesIdle ==
    /\ zpc = "idle" /\ sizeTool = "none" /\ imgW = 0 /\ imgH = 0
    /\ strokeIn = Undefined /\ buffers = <<>>

FloodIdle ==
    /\ fpc = "idle" /\ floodW = 0 /\ floodH = 0 /\ floodNear = <<>>
    /\ work = <<>> /\ pushed = <<>> /\ offered = 0

\* no hotspot, and no replacement record
NoHotspot == [id |-> 0, label |-> "", description |-> ""]
NoReplacement ==
    [set |-> FALSE, id |-> 0, label |-> "", description |-> "",
     originalIndex |-> 0]
NoHandler ==
    [op |-> "none", ok |-> FALSE, before |-> <<>>, rec |-> NoReplacement,
     from |-> "none", fresh |-> FALSE, made |-> NoHotspot]
EditorIdle ==
    /\ hotspots = <<>> /\ activeTool = "idle" /\ editingHotspot = NoHotspot
    /\ replacingHotspot = NoReplacement /\ stored = <<>> /\ nextId = 0
    /\ created = 0 /\ lassoFrom = "none" /\ undisturbed = FALSE
    /\ failures = 0 /\ typed = 0
    /\ last = NoHandler

\* an empty data directory, and a server that has received nothing
NoFiles == [hotspots |-> <<>>, selections |-> <<>>]
StoreIdle ==
    /\ disk = NoFiles /\ clockMs = 0 /\ reqs = <<>> /\ served = <<>>
    /\ writes = 0 /\ disk0 = NoFiles

BevelIdle ==
    /\ bpc = "idle" /\ bevW = 0 /\ bevH = 0 /\ bevAlpha = Unset
    /\ bevelPx = 0 /\ lightDir = 0 /\ intensity = 0 /\ kernel = "none"
    /\ rimR = 0 /\ alphaMask = Unset /\ eroded = Unset /\ erosions = 0
    /\ rimMask = Unset /\ height = Unset /\ gx = Unset /\ gy = Unset
    /\ shadowRGBA = Unset /\ highlightRGBA = Unset

StickerIdle ==
    /\ spc = "idle" /\ variant = "none" /\ srcW = 0 /\ srcH = 0
    /\ srcData = Unset /\ strokeArg = Undefined /\ softArg = Undefined
    /\ strokePx = 0 /\ softness = 0 /\ rgba = Unset
    /\ canvasW = 0 /\ canvasH = 0 /\ expandedData = Unset
    /\ distanceField = Unset /\ passAt = 0 /\ borderData = Unset

\* the call cutoutBorderOnly(input, output, tolArg, featherArg) with the
\* decoded image d of w x h pixels
CutoutCalled(d, w, h, ta, fa) ==
    /\ pc = "start" /\ W = w /\ H = h /\ data = d
    /\ tolArg = ta /\ featherArg = fa
    /\ tolerance = 0 /\ feather = 0
    /\ nearWhite = Unset /\ bg = Unset /\ out = Unset
    /\ blurKind = "none" /\ cleanedImage = Unset
    /\ components = <<>> /\ largestComponent = NoComponent
    /\ final = Unset /\ despeckled = Unset

Init ==
    /\ ChamferIdle /\ StickerIdle /\ BevelIdle /\ ArgsIdle /\ BatchIdle
    /\ StoreIdle
    /\ EditorIdle
    /\ FloodIdle
    /\ SizesIdle
    /\ \E w \in 1 .. MaxW, h \in 1 .. MaxH :
          \E d \in SmallImages(w, h), ta \in TolArgs, fa \in FeatherArgs :
             CutoutCalled(d, w, h, ta, fa)

InitBlobs ==
    /\ ChamferIdle /\ StickerIdle /\ BevelIdle /\ ArgsIdle /\ BatchIdle
    /\ StoreIdle
    /\ EditorIdle
    /\ FloodIdle
    /\ SizesIdle
    /\ \E d \in BlobImages : CutoutCalled(d, BlobW, BlobH, Undefined, Num(-1))

\* white images with a few black pixels
HoleImages(w, h) ==
    {[i \in Pixels(w, h) |-> IF i \in holes THEN Bk ELSE Wh] :
        holes \in SetsUpTo(MaxHoles, Pixels(w, h))}

InitFeather ==
    /\ ChamferIdle /\ StickerIdle /\ BevelIdle /\ ArgsIdle /\ BatchIdle
    /\ StoreIdle
    /\ EditorIdle
    /\ FloodIdle
    /\ SizesIdle
    /\ \E d \in HoleImages(FeatherW, FeatherH), fa \in FeatherArgs :
          CutoutCalled(d, FeatherW, FeatherH, Undefined, fa)

\* lines 21-47
Prepare ==
    /\ pc = "start"
    /\ tolerance' = EffTolerance(tolArg)
    /\ feather' = EffFeather(featherArg)
    /\ nearWhite' = MarkNearWhite(data, EffTolerance(tolArg))
    /\ pc' = "marked"
    /\ UNCHANGED <<W, H, data, tolArg, featherArg, bg, out, blurKind, cleanedImage,
                   components, largestComponent, final, despeckled>>
    /\ UNCHANGED notCutout

\* lines 49-77
Flood ==
    /\ pc = "marked"
    /\ bg' = FloodFill(nearWhite, W, H)
    /\ pc' = "flooded"
    /\ UNCHANGED <<W, H, data, tolArg, featherArg, tolerance, feather, nearWhite,
                   out, blurKind, cleanedImage, components, largestComponent,
                   final, despeckled>>
    /\ UNCHANGED notCutout

\* lines 79-108
FeatherStep ==
    /\ pc = "flooded"
    /\ bg' = Feather(bg, feather, W, H)
    /\ pc' = "feathered"
    /\ UNCHANGED <<W, H, data, tolArg, featherArg, tolerance, feather, nearWhite,
                   out, blurKind, cleanedImage, components, largestComponent,
                   final, despeckled>>
    /\ UNCHANGED notCutout

\* lines 110-118
Alpha ==
    /\ pc = "feathered"
    /\ out' = AssignAlpha(data, bg)
    /\ pc' = "alpha"
    /\ UNCHANGED <<W, H, data, tolArg, featherArg, tolerance, feather, nearWhite,
                   bg, blurKind, cleanedImage, components, largestComponent,
                   final, despeckled>>
    /\ UNCHANGED notCutout

\* lines 120-136
Cleanup ==
    /\ pc = "alpha"
    /\ \E kind \in BlurKinds :
          /\ blurKind' = kind
          /\ cleanedImage' = ThresholdAlpha(Blur(kind, out, W, H))
    /\ pc' = "cleaned"
    /\ UNCHANGED <<W, H, data, tolArg, featherArg, tolerance, feather, nearWhite,
                   bg, out, components, largestComponent, final, despeckled>>
    /\ UNCHANGED notCutout

\* lines 138-210
Select ==
    /\ pc = "cleaned"
    /\ LET comps == FindComponents(OpaqueMask(cleanedImage), W, H)
           largest == FindLargest(comps)
       IN  /\ components' = comps
           /\ largestComponent' = largest
           /\ final' = KeepLargest(cleanedImage, largest)
    /\ pc' = "selected"
    /\ UNCHANGED <<W, H, data, tolArg, featherArg, tolerance, feather, nearWhite,
                   bg, out, blurKind, cleanedImage, despeckled>>
    /\ UNCHANGED notCutout

\* lines 212-243
DespeckleStep ==
    /\ pc = "selected"
    /\ despeckled' = Despeckle(final, W, H)
    /\ pc' = "done"
    /\ UNCHANGED <<W, H, data, tolArg, featherArg, tolerance, feather, nearWhite,
                   bg, out, blurKind, cleanedImage, components, largestComponent,
                   final>>
    /\ UNCHANGED notCutout

Next ==
    \/ Prepare \/ Flood \/ FeatherStep \/ Alpha \/ Cleanup \/ Select \/ DespeckleStep

Spec == Init /\ [][Next]_vars
SpecBlobs == InitBlobs /\ [][Next]_vars
SpecFeather == InitFeather /\ [][Next]_vars

----------------------------------------------------------------------------
(* The distance field of add_second_edge as a state machine *)

\* the alpha > 0 masks of at most MaxSeeds subject pixels on the canvas
SeedSets(w, h) == SetsUpTo(MaxSeeds, Pixels(w, h))

\* the canvases: a block and a one-row strip long enough for a ring of
\* inner radius 5 and outer radius 10
Canvases == {<<ChamferW, ChamferH>>, <<StripW, 1>>}

\* lines 28-29 give edgePx >= 1 and offsetPx >= 0
EdgePxValues == {1, 2, 5}
OffsetPxValues == {0, 1, 5}

InitChamfer ==
    /\ CutoutIdle /\ StickerIdle /\ BevelIdle /\ ArgsIdle /\ BatchIdle
    /\ StoreIdle
    /\ EditorIdle
    /\ FloodIdle
    /\ SizesIdle
    /\ cpc = "expanded"
    /\ df = Unset /\ ringA = Unset
    /\ edgePx \in EdgePxValues /\ offsetPx \in OffsetPxValues
    /\ \E c \in Canvases :
          /\ newW = c[1] /\ newH = c[2]
          /\ \E S \in SeedSets(c[1], c[2]) :
                mask = MaskFromAlpha([i \in Pixels(c[1], c[2]) |->
                                         IF i \in S THEN 255 ELSE 0])

\* lines 61-64
SeedStep ==
    /\ cpc = "expanded"
    /\ df' = SeedField(mask)
    /\ cpc' = "seeded"
    /\ UNCHANGED <<newW, newH, mask, offsetPx, edgePx, ringA>>
    /\ UNCHANGED notChamfer

\* lines 66-76
ForwardStep ==
    /\ cpc = "seeded"
    /\ df' = ForwardPass(df, newW, newH)
    /\ cpc' = "forward"
    /\ UNCHANGED <<newW, newH, mask, offsetPx, edgePx, ringA>>
    /\ UNCHANGED notChamfer

\* lines 77-87
BackwardStep ==
    /\ cpc = "forward"
    /\ df' = BackwardPass(df, newW, newH)
    /\ cpc' = "done"
    /\ UNCHANGED <<newW, newH, mask, offsetPx, edgePx, ringA>>
    /\ UNCHANGED notChamfer

\* lines 89-96
RingStep ==
    /\ cpc = "done"
    /\ ringA' = RingAlpha(mask, df, offsetPx, offsetPx + edgePx)
    /\ cpc' = "ring"
    /\ UNCHANGED <<newW, newH, mask, df, offsetPx, edgePx>>
    /\ UNCHANGED notChamfer

NextChamfer == SeedStep \/ ForwardStep \/ BackwardStep \/ RingStep

SpecChamfer == InitChamfer /\ [][NextChamfer]_vars

----------------------------------------------------------------------------
(* make_sticker_border (src/unnamed/part_003): makeStickerBorder with its    *)
(* border builders createRasterSmoothBorder (lines 554-647),                *)
(* createVectorSmoothBorder (lines 493-549) and the smooth-falloff          *)
(* createRasterSmoothBorder of lines 1077-1164.  softness is kept in        *)
(* tenths.                                                                  *)

DefaultStrokePx == 16
DefaultSoftness == 8

\* lines 349-350
EffStrokePx(arg) == Max(1, Min(500, NumberOr(arg, DefaultStrokePx)))
EffSoftness(arg) == Max(1, Min(50, NumberOr(arg, DefaultSoftness)))

\* lines 368-378: light, near-neutral pixels become pure white
NormalizePixel(px) ==
    LET r == px[1]
        g == px[2]
        b == px[3]
        maxDiff == Max(Abs(r - g), Max(Abs(r - b), Abs(g - b)))
    IN  IF r > 220 /\ g > 220 /\ b > 220 /\ maxDiff < 20
        THEN <<255, 255, 255, px[4]>> ELSE px
NormalizeOffWhite(d) == [i \in DOMAIN d |-> NormalizePixel(d[i])]

\* lines 388-402: the image copied to the centre of a transparent canvas
ExpandCanvas(img, w, h, padding) ==
    LET nw == w + padding * 2
        nh == h + padding * 2
    IN  [i \in Pixels(nw, nh) |->
            LET x == XOf(i, nw) - padding
                y == YOf(i, nw) - padding
            IN  IF x >= 0 /\ x < w /\ y >= 0 /\ y < h
                THEN img[y * w + x] ELSE <<0, 0, 0, 0>>]

\* lines 558-565: the seeds of the opaque-border builder
BinaryMask(e) == [i \in DOMAIN e |-> IF e[i][4] > 127 THEN 1 ELSE 0]
\* lines 1087-1096: the seeds of the falloff builder
AlphaMask(e) == [i \in DOMAIN e |-> IF e[i][4] > 0 THEN 1 ELSE 0]

\* lines 571-585: the sentinel strokePx * 2 everywhere but at the seeds
InitDistanceField(m, stroke) ==
    [i \in DOMAIN m |-> IF m[i] = 1 THEN Dist(0, 0) ELSE Dist(0, stroke * 2)]

\* the pixels the passes visit, in forward order (lines 590-591)
InteriorSeq(w, h) ==
    [k \in 1 .. ((w - 2) * (h - 2)) |->
        (1 + ((k - 1) \div (w - 2))) * w + (1 + ((k - 1) % (w - 2)))]

\* a forward update that takes the neighbour values without their weights
ForwardUpdateNoWeight(f, i, w) ==
    MathMin(f[i],
        MathMin(MathMin(f[i - w - 1], f[i - w]),
                MathMin(f[i - w + 1], f[i - 1])))

\* lines 593-602
ForwardUpdate(f, i, w) ==
    MathMin(f[i],
        MathMin(MathMin(PlusSqrt2(f[i - w - 1]), PlusOne(f[i - w])),
                MathMin(PlusSqrt2(f[i - w + 1]), PlusOne(f[i - 1]))))

\* lines 610-619
BackwardUpdate(f, i, w) ==
    MathMin(f[i],
        MathMin(MathMin(PlusOne(f[i + 1]), PlusSqrt2(f[i + w - 1])),
                MathMin(PlusOne(f[i + w]), PlusSqrt2(f[i + w + 1]))))

\* lines 624-643: subject pixels copied, opaque white within strokePx
WhitePixel == <<255, 255, 255, 255>>
ClearPixel == <<0, 0, 0, 0>>
\* a composition that keeps only the seed pixels of the subject
ComposeBorderOverFaint(e, f, stroke) ==
    [i \in DOMAIN e |->
        IF e[i][4] > 127 THEN e[i]
        ELSE IF LessEq(f[i], Dist(0, stroke)) THEN WhitePixel
        ELSE ClearPixel]
ComposeBorder(e, f, stroke) ==
    [i \in DOMAIN e |->
        IF e[i][4] > 0 THEN e[i]
        ELSE IF LessEq(f[i], Dist(0, stroke)) THEN WhitePixel
        ELSE ClearPixel]

\* lines 500-546: white where a subject pixel lies within the Euclidean
\* distance strokePx, then the subject drawn over it
NearSubject(e, i, w, h, stroke) ==
    \E j \in DOMAIN e :
        LET dx == XOf(j, w) - XOf(i, w)
            dy == YOf(j, w) - YOf(i, w)
        IN  /\ Abs(dx) <= stroke /\ Abs(dy) <= stroke
            /\ e[j][4] > 0
            /\ dx * dx + dy * dy <= stroke * stroke
VectorBorder(e, w, h, stroke) ==
    [i \in DOMAIN e |->
        IF e[i][4] > 0 THEN e[i]
        ELSE IF NearSubject(e, i, w, h, stroke) THEN WhitePixel
        ELSE ClearPixel]

\* numbers s + d * sqrt2 with integer s and d of either sign
Surd(sv, dv) == [s |-> sv, d |-> dv]
SurdTimes(a, b) == Surd(a.s * b.s + 2 * a.d * b.d, a.s * b.d + a.d * b.s)
RECURSIVE SurdPow(_, _)
SurdPow(a, k) == IF k = 0 THEN Surd(1, 0) ELSE SurdTimes(a, SurdPow(a, k - 1))
RECURSIVE IntPow(_, _)
IntPow(n, k) == IF k = 0 THEN 1 ELSE n * IntPow(n, k - 1)
\* s + d * sqrt2 >= 0
SurdNonNeg(a) ==
    IF a.s >= 0 /\ a.d >= 0 THEN TRUE
    ELSE IF a.s <= 0 /\ a.d <= 0 THEN FALSE
    ELSE IF a.s > 0 THEN a.s * a.s >= 2 * a.d * a.d
    ELSE 2 * a.d * a.d >= a.s * a.s

\* a falloff that truncates instead of rounding
FalloffAlphaTruncated(dist, stroke, k) ==
    LET x == SurdPow(Surd(stroke - dist.s, 0 - dist.d), k)
        sk == IntPow(stroke, k)
        ok(n) == SurdNonNeg(Surd(255 * x.s - n * sk, 255 * x.d))
    IN  CHOOSE n \in 0 .. 255 : ok(n) /\ (n = 255 \/ ~ok(n + 1))

\* lines 1149-1151 for a softness whose reciprocal is the integer k:
\* Math.round(255 * Math.pow(Math.max(0, 1 - distance / strokePx), k)),
\* the greatest n with (2n - 1) * strokePx^k <= 510 * (strokePx - distance)^k
FalloffAlpha(dist, stroke, k) ==
    LET x == SurdPow(Surd(stroke - dist.s, 0 - dist.d), k)
        sk == IntPow(stroke, k)
        ok(n) == SurdNonNeg(Surd(510 * x.s - (2 * n - 1) * sk, 510 * x.d))
    IN  CHOOSE n \in 0 .. 255 : ok(n) /\ (n = 255 \/ ~ok(n + 1))

\* the exponent 1 / softness, softness in tenths
Exponent(soft) == 10 \div soft

\* lines 1136-1161
ComposeFalloff(e, f, stroke, soft) ==
    [i \in DOMAIN e |->
        IF e[i][4] > 0 THEN e[i]
        ELSE IF LessEq(f[i], Dist(0, stroke))
        THEN LET alpha == FalloffAlpha(f[i], stroke, Exponent(soft))
             IN  IF alpha > 0 THEN <<255, 255, 255, alpha>> ELSE ClearPixel
        ELSE ClearPixel]

----------------------------------------------------------------------------
(* makeStickerBorder as a state machine *)

\* source pixels: light near-neutral opaque, dark opaque, dark with an
\* alpha between 1 and 127, fully transparent
OffWhite == <<230, 235, 228, 255>>
Dark == <<10, 20, 30, 255>>
Faint == <<10, 20, 30, 100>>
StickerPalette == {OffWhite, Dark, Faint, ClearPixel}
StickerImages(w, h) == [Pixels(w, h) -> StickerPalette]

StrokeArgs == {Num(k) : k \in 1 .. MaxStroke}
\* softness 0.5 and 1.0, whose reciprocals are integers
SoftArgs == {Num(5), Num(10)}
Variants == {"raster", "vectorSmooth", "falloff"}

InitSticker ==
    /\ CutoutIdle /\ ChamferIdle /\ BevelIdle /\ ArgsIdle /\ BatchIdle
    /\ StoreIdle
    /\ EditorIdle
    /\ FloodIdle
    /\ SizesIdle
    /\ spc = "start"
    /\ variant \in Variants
    /\ srcW \in 1 .. StickerW /\ srcH \in 1 .. StickerH
    /\ srcData \in StickerImages(srcW, srcH)
    /\ strokeArg \in StrokeArgs
    /\ softArg \in (IF variant = "falloff" THEN SoftArgs ELSE {Undefined})
    /\ strokePx = 0 /\ softness = 0 /\ rgba = Unset
    /\ canvasW = 0 /\ canvasH = 0 /\ expandedData = Unset
    /\ distanceField = Unset /\ passAt = 0 /\ borderData = Unset

\* lines 348-378
NormalizeStep ==
    /\ spc = "start"
    /\ strokePx' = EffStrokePx(strokeArg)
    /\ softness' = EffSoftness(softArg)
    /\ rgba' = NormalizeOffWhite(srcData)
    /\ spc' = "normalized"
    /\ UNCHANGED <<variant, srcW, srcH, srcData, strokeArg, softArg, canvasW,
                   canvasH, expandedData, distanceField, passAt, borderData>>
    /\ UNCHANGED notSticker

\* lines 380-402
ExpandStep ==
    /\ spc = "normalized"
    /\ canvasW' = srcW + strokePx * 2
    /\ canvasH' = srcH + strokePx * 2
    /\ expandedData' = ExpandCanvas(rgba, srcW, srcH, strokePx)
    /\ spc' = "expanded"
    /\ UNCHANGED <<variant, srcW, srcH, srcData, strokeArg, softArg, strokePx,
                   softness, rgba, distanceField, passAt, borderData>>
    /\ UNCHANGED notSticker

\* lines 407-409 and 493-549
VectorSmoothBorder ==
    /\ spc = "expanded" /\ variant = "vectorSmooth"
    /\ borderData' = VectorBorder(expandedData, canvasW, canvasH, strokePx)
    /\ spc' = "done"
    /\ UNCHANGED <<variant, srcW, srcH, srcData, strokeArg, softArg, strokePx,
                   softness, rgba, canvasW, canvasH, expandedData,
                   distanceField, passAt>>
    /\ UNCHANGED notSticker

\* lines 555-585 (opaque border) and 1078-1096 (falloff)
SeedDistanceField ==
    /\ spc = "expanded" /\ variant # "vectorSmooth"
    /\ distanceField' =
          InitDistanceField(IF variant = "raster" THEN BinaryMask(expandedData)
                            ELSE AlphaMask(expandedData), strokePx)
    /\ passAt' = 0
    /\ spc' = "forward"
    /\ UNCHANGED <<variant, srcW, srcH, srcData, strokeArg, softArg, strokePx,
                   softness, rgba, canvasW, canvasH, expandedData, borderData>>
    /\ UNCHANGED notSticker

\* one iteration of the forward pass (lines 590-604)
ForwardPixel ==
    /\ spc = "forward"
    /\ LET order == InteriorSeq(canvasW, canvasH)
           i == order[passAt + 1]
       IN  /\ distanceField' =
                 [distanceField EXCEPT ![i] = ForwardUpdate(distanceField, i, canvasW)]
           /\ IF passAt + 1 = Len(order)
              THEN spc' = "backward" /\ passAt' = 0
              ELSE spc' = spc /\ passAt' = passAt + 1
    /\ UNCHANGED <<variant, srcW, srcH, srcData, strokeArg, softArg, strokePx,
                   softness, rgba, canvasW, canvasH, expandedData, borderData>>
    /\ UNCHANGED notSticker

\* one iteration of the backward pass (lines 607-621)
BackwardPixel ==
    /\ spc = "backward"
    /\ LET order == InteriorSeq(canvasW, canvasH)
           i == order[Len(order) - passAt]
       IN  /\ distanceField' =
                 [distanceField EXCEPT ![i] = BackwardUpdate(distanceField, i, canvasW)]
           /\ IF passAt + 1 = Len(order)
              THEN spc' = "field" /\ passAt' = 0
              ELSE spc' = spc /\ passAt' = passAt + 1
    /\ UNCHANGED <<variant, srcW, srcH, srcData, strokeArg, softArg, strokePx,
                   softness, rgba, canvasW, canvasH, expandedData, borderData>>
    /\ UNCHANGED notSticker

\* lines 623-646
RasterCompose ==
    /\ spc = "field" /\ variant = "raster"
    /\ borderData' = ComposeBorder(expandedData, distanceField, strokePx)
    /\ spc' = "done"
    /\ UNCHANGED <<variant, srcW, srcH, srcData, strokeArg, softArg, strokePx,
                   softness, rgba, canvasW, canvasH, expandedData,
                   distanceField, passAt>>
    /\ UNCHANGED notSticker

\* lines 1135-1163
FalloffCompose ==
    /\ spc = "field" /\ variant = "falloff"
    /\ borderData' = ComposeFalloff(expandedData, distanceField, strokePx, softness)
    /\ spc' = "done"
    /\ UNCHANGED <<variant, srcW, srcH, srcData, strokeArg, softArg, strokePx,
                   softness, rgba, canvasW, canvasH, expandedData,
                   distanceField, passAt>>
    /\ UNCHANGED notSticker

NextSticker ==
    \/ NormalizeStep \/ ExpandStep \/ VectorSmoothBorder \/ SeedDistanceField
    \/ ForwardPixel \/ BackwardPixel \/ RasterCompose \/ FalloffCompose

SpecSticker == InitSticker /\ [][NextSticker]_vars

----------------------------------------------------------------------------
(* add_bevel (src/unnamed/part_003, lines 1302-1485).  intensity is kept   *)
(* in twentieths; the height map is kept in units of one mask pixel, which *)
(* the normalisation of the gradient (lines 1438-1439) cancels.            *)

\* line 1317
clamp(n, min, max) == Max(min, Min(max, n))

\* lines 1339-1356
erode3x3(m, w, h) ==
    [i \in DOMAIN m |->
        LET x == XOf(i, w)
            y == YOf(i, w)
        IN  IF x = 0 \/ x = w - 1 \/ y = 0 \/ y = h - 1 THEN 0
            ELSE IF \A dy \in -1 .. 1, dx \in -1 .. 1 : m[(y + dy) * w + (x + dx)] # 0
                 THEN 1 ELSE 0]

\* a rim that is the whole sticker
RimOfAll(am, er) == [i \in DOMAIN am |-> IF am[i] # 0 THEN 1 ELSE 0]

\* lines 1410-1415
RimOf(am, er) == [i \in DOMAIN am |-> IF am[i] # 0 /\ er[i] = 0 THEN 1 ELSE 0]

\* lines 1358-1365 and 1418-1422: the blurred alpha.  The blur is the image
\* library's; it is a 3x3 box or a plus-shaped kernel over the mask here.
BevelKernels == {"box", "plus"}
blurAlpha(kind, am, w, h) ==
    [i \in DOMAIN am |->
        LET S == IF kind = "box" THEN Window(i, w, h)
                 ELSE {j \in Window(i, w, h) : XOf(j, w) = XOf(i, w) \/ YOf(j, w) = YOf(i, w)}
        IN  Cardinality({j \in S : am[j] # 0})]

\* lines 1371-1372
Kx == <<-1, 0, 1, -2, 0, 2, -1, 0, 1>>
Ky == <<-1, -2, -1, 0, 0, 0, 1, 2, 1>>

\* lines 1373-1386: one gradient component, 0 on the image border
RECURSIVE SobelSum(_, _, _, _, _)
SobelSum(hm, K, i, w, k) ==
    IF k > 9 THEN 0
    ELSE hm[i + (((k - 1) \div 3) - 1) * w + (((k - 1) % 3) - 1)] * K[k]
            + SobelSum(hm, K, i, w, k + 1)
sobel(hm, K, w, h) ==
    [i \in DOMAIN hm |->
        LET x == XOf(i, w)
            y == YOf(i, w)
        IN  IF x = 0 \/ x = w - 1 \/ y = 0 \/ y = h - 1 THEN 0
            ELSE SobelSum(hm, K, i, w, 1)]

\* lines 1426-1427 for the angles whose direction has integer components:
\* a vector along (cos, sin), not normalised
LightDirs == {0, 90, 180, 225}
LightVector(deg) ==
    IF deg = 0 THEN <<1, 0>>
    ELSE IF deg = 90 THEN <<0, 1>>
    ELSE IF deg = 180 THEN <<-1, 0>>
    ELSE <<-1, -1>>

\* the numerator of ndotl: gx*lx + gy*ly (line 1440), and the square of its
\* denominator len * |l| (line 1438)
DotNum(g1, g2, l) == g1 * l[1] + g2 * l[2]
DotDen2(g1, g2, l) == (g1 * g1 + g2 * g2) * (l[1] * l[1] + l[2] * l[2])

\* lines 1445 and 1452: Math.round(255 * intensity * Math.abs(ndotl)), the
\* greatest n with (2n - 1) * 2 * sqrt(den2) <= 51 * intensity * |num|.
\* A zero gradient has len = 1e-6 and ndotl = 0.
ShadeAlpha(num, den2, inten) ==
    IF den2 = 0 THEN 0
    ELSE LET rhs == 51 * inten * Abs(num)
             ok(n) == n = 0 \/ (2 * n - 1) * (2 * n - 1) * 4 * den2 <= rhs * rhs
         IN  CHOOSE n \in 0 .. 255 : ok(n) /\ (n = 255 \/ ~ok(n + 1))

ZeroPixel == <<0, 0, 0, 0>>

\* a shadow layer that takes the pixels lit from the front
ShadowLit(rm, g1, g2, l, inten) ==
    [i \in DOMAIN rm |->
        IF rm[i] = 1 /\ DotNum(g1[i], g2[i], l) >= 0
        THEN <<0, 0, 0, ShadeAlpha(DotNum(g1[i], g2[i], l), DotDen2(g1[i], g2[i], l), inten)>>
        ELSE ZeroPixel]

\* lines 1430 and 1433-1449
ShadowLayer(rm, g1, g2, l, inten) ==
    [i \in DOMAIN rm |->
        IF rm[i] = 1 /\ DotNum(g1[i], g2[i], l) < 0
        THEN <<0, 0, 0, ShadeAlpha(DotNum(g1[i], g2[i], l), DotDen2(g1[i], g2[i], l), inten)>>
        ELSE ZeroPixel]

\* lines 1431, 1433-1443 and 1450-1457
HighlightLayer(rm, g1, g2, l, inten) ==
    [i \in DOMAIN rm |->
        IF rm[i] = 1 /\ ~(DotNum(g1[i], g2[i], l) < 0)
        THEN <<255, 255, 255,
               ShadeAlpha(DotNum(g1[i], g2[i], l), DotDen2(g1[i], g2[i], l), inten)>>
        ELSE ZeroPixel]

----------------------------------------------------------------------------
(* add_bevel's main as a state machine *)

BevelImages == [Pixels(BevelW, BevelH) -> {0, 255}]
\* 0, 0.35 and 1
IntensityValues == {0, 7, 20}

InitBevel ==
    /\ CutoutIdle /\ ChamferIdle /\ StickerIdle /\ ArgsIdle /\ BatchIdle
    /\ StoreIdle
    /\ EditorIdle
    /\ FloodIdle
    /\ SizesIdle
    /\ bpc = "start"
    /\ bevW = BevelW /\ bevH = BevelH
    /\ bevAlpha \in BevelImages
    /\ bevelPx \in 1 .. MaxBevelPx
    /\ lightDir \in LightDirs
    /\ intensity \in IntensityValues
    /\ kernel = "none"
    /\ rimR = 0 /\ alphaMask = Unset /\ eroded = Unset /\ erosions = 0
    /\ rimMask = Unset /\ height = Unset /\ gx = Unset /\ gy = Unset
    /\ shadowRGBA = Unset /\ highlightRGBA = Unset

\* lines 1401-1408
BuildMask ==
    /\ bpc = "start"
    /\ alphaMask' = [i \in DOMAIN bevAlpha |-> IF bevAlpha[i] > 0 THEN 1 ELSE 0]
    /\ rimR' = clamp(bevelPx, 1, 50)
    /\ eroded' = alphaMask'
    /\ erosions' = 0
    /\ bpc' = "eroding"
    /\ UNCHANGED <<bevW, bevH, bevAlpha, bevelPx, lightDir, intensity, kernel,
                   rimMask, height, gx, gy, shadowRGBA, highlightRGBA>>
    /\ UNCHANGED notBevel

\* one iteration of line 1409
ErodeOnce ==
    /\ bpc = "eroding" /\ erosions < rimR
    /\ eroded' = erode3x3(eroded, bevW, bevH)
    /\ erosions' = erosions + 1
    /\ UNCHANGED <<bpc, bevW, bevH, bevAlpha, bevelPx, lightDir, intensity, kernel,
                   rimR, alphaMask, rimMask, height, gx, gy, shadowRGBA,
                   highlightRGBA>>
    /\ UNCHANGED notBevel

\* lines 1410-1415
BuildRim ==
    /\ bpc = "eroding" /\ erosions = rimR
    /\ rimMask' = RimOf(alphaMask, eroded)
    /\ bpc' = "rim"
    /\ UNCHANGED <<bevW, bevH, bevAlpha, bevelPx, lightDir, intensity, kernel,
                   rimR, alphaMask, eroded, erosions, height, gx, gy,
                   shadowRGBA, highlightRGBA>>
    /\ UNCHANGED notBevel

\* lines 1417-1427
HeightAndGradient ==
    /\ bpc = "rim"
    /\ \E kind \in BevelKernels :
          /\ kernel' = kind
          /\ height' = blurAlpha(kind, alphaMask, bevW, bevH)
    /\ gx' = sobel(height', Kx, bevW, bevH)
    /\ gy' = sobel(height', Ky, bevW, bevH)
    /\ bpc' = "gradient"
    /\ UNCHANGED <<bevW, bevH, bevAlpha, bevelPx, lightDir, intensity, rimR,
                   alphaMask, eroded, erosions, rimMask, shadowRGBA,
                   highlightRGBA>>
    /\ UNCHANGED notBevel

\* lines 1429-1459
Shade ==
    /\ bpc = "gradient"
    /\ shadowRGBA' = ShadowLayer(rimMask, gx, gy, LightVector(lightDir), intensity)
    /\ highlightRGBA' = HighlightLayer(rimMask, gx, gy, LightVector(lightDir), intensity)
    /\ bpc' = "shaded"
    /\ UNCHANGED <<bevW, bevH, bevAlpha, bevelPx, lightDir, intensity, kernel,
                   rimR, alphaMask, eroded, erosions, rimMask, height, gx, gy>>
    /\ UNCHANGED notBevel

NextBevel == BuildMask \/ ErodeOnce \/ BuildRim \/ HeightAndGradient \/ Shade

SpecBevel == InitBevel /\ [][NextBevel]_vars

----------------------------------------------------------------------------
(* Argument handling of the tools: cutoutBorderOnly (lines 21-24 of         *)
(* cutout_border_only.js), makeStickerBorder (part_003 lines 348-351) and   *)
(* add_bevel's parseArgs (part_003 lines 1319-1336).  A command-line token  *)
(* of parseArgs is absent (its flag is not given), undefined (the flag is   *)
(* the last token), empty, a text without a numeric prefix, or a number,    *)
(* kept in twentieths.                                                      *)

Absent == [t |-> "absent", v |-> 0]
Empty == [t |-> "empty", v |-> 0]
Text == [t |-> "text", v |-> 0]

\* a[++i] || "4": the default string for an undefined or empty token
OrDefault(tok, d) == IF tok.t \in {"undefined", "empty"} THEN Num(d) ELSE tok
\* parseInt(s, 10) of a token in twentieths: the integer part, or NaN
parseInt(tok) ==
    IF tok.t # "num" THEN NaN
    ELSE IF tok.v >= 0 THEN Num(tok.v \div 20) ELSE Num(0 - ((0 - tok.v) \div 20))
\* parseFloat(s): the number, or NaN
parseFloat(tok) == IF tok.t # "num" THEN NaN ELSE tok
\* x || d on a number: NaN and 0 give d
OrNumber(val, d) == IF val.t = "nan" \/ val.v = 0 THEN Num(d) ELSE val
\* line 1317 on a JavaScript number: Math.max and Math.min return NaN for NaN
clampNumber(val, min, max) ==
    IF val.t = "nan" THEN NaN ELSE Num(clamp(val.v, min, max))

\* line 1326 and line 1329: an integer number of pixels
ParseBevelPx(tok) ==
    IF tok.t = "absent" THEN Num(4)
    ELSE clampNumber(OrNumber(parseInt(OrDefault(tok, 80)), 4), 1, 50)
\* line 1326 and line 1330: degrees, in twentieths
ParseLightDir(tok) ==
    IF tok.t = "absent" THEN Num(900) ELSE parseFloat(OrDefault(tok, 900))
\* line 1326 and line 1331: in twentieths
ParseIntensity(tok) ==
    IF tok.t = "absent" THEN Num(7)
    ELSE clampNumber(parseFloat(OrDefault(tok, 7)), 0, 20)

\* the values a caller passes to a unary-plus parameter with bounds lo..hi:
\* missing, non-numeric, zero, negative, the bounds, inside, above
PlusArgs(lo, mid, hi) ==
    {Undefined, NaN, Num(0), Num(-3), Num(lo), Num(mid), Num(hi), Num(hi + 1)}
\* the tokens of a parseArgs flag, numbers in twentieths
Tokens(mid, hi) ==
    {Absent, Undefined, Empty, Text, Num(0), Num(-60), Num(10), Num(mid), Num(hi),
     Num(hi + 20)}

Called(t, a) == apc = "start" /\ tool = t /\ argv = a /\ params = NoArgs

InitArgs ==
    /\ CutoutIdle /\ ChamferIdle /\ StickerIdle /\ BevelIdle /\ BatchIdle
    /\ StoreIdle
    /\ EditorIdle
    /\ FloodIdle
    /\ SizesIdle
    /\ \/ \E a \in PlusArgs(1, 8, 500), b \in PlusArgs(1, 8, 50) :
             Called("makeStickerBorder", [NoArgs EXCEPT !.strokePx = a, !.softness = b])
       \/ \E a \in Tokens(54, 1000), b \in {Absent, Text, Num(900)},
             c \in Tokens(7, 20) :
             Called("add_bevel", [NoArgs EXCEPT !.bevelPx = a, !.lightDir = b,
                                                !.intensity = c])
       \/ \E a \in PlusArgs(1, 220, 255), b \in PlusArgs(1, 2, 5) :
             \E c \in {Undefined, Num(0), Num(8)} :
                Called("cutoutBorderOnly", [NoArgs EXCEPT !.tolerance = a,
                                               !.feather = b, !.preblur = c])

\* part_003 lines 348-350
StickerParams ==
    /\ apc = "start" /\ tool = "makeStickerBorder"
    /\ params' = [NoArgs EXCEPT !.strokePx = Num(EffStrokePx(argv.strokePx)),
                                !.softness = Num(EffSoftness(argv.softness))]
    /\ apc' = "parsed"
    /\ UNCHANGED <<tool, argv>>
    /\ UNCHANGED notArgs

\* part_003 lines 1319-1336
parseArgs ==
    /\ apc = "start" /\ tool = "add_bevel"
    /\ params' = [NoArgs EXCEPT !.bevelPx = ParseBevelPx(argv.bevelPx),
                                !.lightDir = ParseLightDir(argv.lightDir),
                                !.intensity = ParseIntensity(argv.intensity)]
    /\ apc' = "parsed"
    /\ UNCHANGED <<tool, argv>>
    /\ UNCHANGED notArgs

\* cutout_border_only.js lines 21-24
CutoutParams ==
    /\ apc = "start" /\ tool = "cutoutBorderOnly"
    /\ params' = [NoArgs EXCEPT !.tolerance = Num(EffTolerance(argv.tolerance)),
                                !.feather = Num(EffFeather(argv.feather)),
                                !.preblur = Num(EffPreblur(argv.preblur))]
    /\ apc' = "parsed"
    /\ UNCHANGED <<tool, argv>>
    /\ UNCHANGED notArgs

NextArgs == StickerParams \/ parseArgs \/ CutoutParams

SpecArgs == InitArgs /\ [][NextArgs]_vars

----------------------------------------------------------------------------
(* The batch drivers: processAllCharacters of cutout_border_only.js (lines *)
(* 308-382), processAllCharacters of make_sticker_border (part_003 lines   *)
(* 652-727) and processImages of gen_outlines.js (lines 282-361), each on  *)
(* one folder.  A file is [base, ext], ext being what follows the first    *)
(* dot.                                                                    *)

File(b, e) == [base |-> b, ext |-> e]
Drivers == {"cutout", "sticker", "outline"}

\* cutout lines 333-334, part_003 line 678, gen_outlines lines 81-84
IsSource(d, f) ==
    IF d = "sticker" THEN f.ext = "cutout.webp"
    ELSE f.ext \in {"png", "jpg", "jpeg"}

\* cutout line 337, part_003 lines 681-682, gen_outlines lines 89-93
OutputPath(d, f) ==
    File(f.base, IF d = "cutout" THEN "cutout.webp"
                 ELSE IF d = "sticker" THEN "sticker.webp"
                 ELSE "outline.webp")

\* a check that never finds the output
NeverExists(files, path) == FALSE

\* fs.access(outputPath) succeeds (cutout lines 340-348, part_003 lines
\* 685-693, gen_outlines lines 98-105)
Exists(files, path) == path \in files

\* the files a folder may hold
FolderFiles ==
    {File(b, e) : b \in {"a", "b"}, e \in {"png", "cutout.webp"}}
        \cup {File("a", "jpg"), File("a", "sticker.webp"), File("b", "outline.webp")}
OutputFiles == {OutputPath(d, f) : d \in Drivers, f \in FolderFiles}

\* the entries of a listing the loop does not `continue` past
Sources(d, files) == {f \in files : IsSource(d, f)}

\* an error counter that is never incremented
CountErrorNever(n) == n

\* totalErrors++ (cutout lines 359 and 370, part_003 lines 704 and 715,
\* gen_outlines line 341)
CountError(n) == n + 1

InitBatch ==
    /\ CutoutIdle /\ ChamferIdle /\ StickerIdle /\ BevelIdle /\ ArgsIdle
    /\ StoreIdle
    /\ EditorIdle
    /\ FloodIdle
    /\ SizesIdle
    /\ dpc = "start" /\ run = 1
    /\ driver \in Drivers
    /\ fsFiles \in SUBSET FolderFiles
    /\ written = [f \in OutputFiles |-> 0]
    /\ writtenBefore = written
    /\ remaining = {}
    /\ totalProcessed = 0 /\ totalSkipped = 0 /\ totalErrors = 0
    /\ firstRun = NoTotals
    /\ readable = TRUE /\ pending = <<>>
    /\ listed = 0 /\ failedReads = 0

\* the directory listing (cutout line 330, part_003 line 674, gen_outlines
\* lines 58-61) and the zeroed totals
ReadDir ==
    /\ dpc = "start" /\ readable
    /\ remaining' = fsFiles
    /\ totalProcessed' = 0 /\ totalSkipped' = 0 /\ totalErrors' = 0
    /\ writtenBefore' = written
    /\ listed' = Cardinality(Sources(driver, fsFiles))
    /\ failedReads' = 0
    /\ dpc' = "loop"
    /\ UNCHANGED <<driver, fsFiles, written, run, firstRun, readable, pending>>
    /\ UNCHANGED notBatch

\* an entry that is not a source image: continue
SkipOther ==
    /\ dpc = "loop"
    /\ \E f \in remaining :
          /\ ~IsSource(driver, f)
          /\ remaining' = remaining \ {f}
    /\ UNCHANGED <<dpc, driver, fsFiles, written, totalProcessed, totalSkipped,
                   totalErrors, run, firstRun, writtenBefore>>
    /\ UNCHANGED <<readable, pending, listed, failedReads>>
    /\ UNCHANGED notBatch

\* the output exists: counted as skipped
SkipExisting ==
    /\ dpc = "loop"
    /\ \E f \in remaining :
          /\ IsSource(driver, f)
          /\ Exists(fsFiles, OutputPath(driver, f))
          /\ remaining' = remaining \ {f}
    /\ totalSkipped' = totalSkipped + 1
    /\ UNCHANGED <<dpc, driver, fsFiles, written, totalProcessed, totalErrors,
                   run, firstRun, writtenBefore>>
    /\ UNCHANGED <<readable, pending, listed, failedReads>>
    /\ UNCHANGED notBatch

\* the tool runs and writes the output
Generate ==
    /\ dpc = "loop"
    /\ \E f \in remaining :
          /\ IsSource(driver, f)
          /\ ~Exists(fsFiles, OutputPath(driver, f))
          /\ remaining' = remaining \ {f}
          /\ fsFiles' = fsFiles \cup {OutputPath(driver, f)}
          /\ written' = [written EXCEPT ![OutputPath(driver, f)] = @ + 1]
    /\ totalProcessed' = totalProcessed + 1
    /\ UNCHANGED <<dpc, driver, totalSkipped, totalErrors, run, firstRun,
                   writtenBefore>>
    /\ UNCHANGED <<readable, pending, listed, failedReads>>
    /\ UNCHANGED notBatch

\* the tool throws (or generateOutline returns false) before it writes
GenerateFails ==
    /\ dpc = "loop"
    /\ \E f \in remaining :
          /\ IsSource(driver, f)
          /\ ~Exists(fsFiles, OutputPath(driver, f))
          /\ remaining' = remaining \ {f}
    /\ totalErrors' = CountError(totalErrors)
    /\ UNCHANGED <<dpc, driver, fsFiles, written, totalProcessed, totalSkipped,
                   run, firstRun, writtenBefore>>
    /\ UNCHANGED <<readable, pending, listed, failedReads>>
    /\ UNCHANGED notBatch

\* the summary; the next run starts right after
FinishRun ==
    /\ dpc = "loop" /\ remaining = {} /\ pending = <<>>
    /\ IF run < Runs
       THEN /\ dpc' = "start" /\ run' = run + 1
            /\ firstRun' = IF run = 1
                           THEN [processed |-> totalProcessed,
                                 skipped |-> totalSkipped, errors |-> totalErrors]
                           ELSE firstRun
       ELSE dpc' = "done" /\ UNCHANGED <<run, firstRun>>
    /\ UNCHANGED <<driver, fsFiles, written, remaining, totalProcessed,
                   totalSkipped, totalErrors, writtenBefore>>
    /\ UNCHANGED <<readable, pending, listed, failedReads>>
    /\ UNCHANGED notBatch

NextBatch ==
    \/ ReadDir \/ SkipOther \/ SkipExisting \/ Generate \/ GenerateFails
    \/ FinishRun

SpecBatch == InitBatch /\ [][NextBatch]_vars

----------------------------------------------------------------------------
(* A batch run over several folders (cutout lines 322-372, part_003 lines  *)
(* 666-717, gen_outlines lines 304-350), some of which cannot be listed.   *)
(* The run is one that found at least one folder: the early return of      *)
(* cutout lines 313-316 is not part of it.                                 *)

Folder(files, ok) == [files |-> files, readable |-> ok]

\* the folders that may follow the first one
LaterFolders ==
    {Folder({}, FALSE), Folder({}, TRUE),
     Folder({File("a", "png"), File("a", "cutout.webp"),
             File("b", "cutout.webp")}, TRUE)}
FolderLists ==
    UNION {[1 .. n -> LaterFolders] : n \in 1 .. (MaxFolders - 1)}

InitFolders ==
    /\ CutoutIdle /\ ChamferIdle /\ StickerIdle /\ BevelIdle /\ ArgsIdle
    /\ StoreIdle
    /\ EditorIdle
    /\ FloodIdle
    /\ SizesIdle
    /\ dpc = "start" /\ run = Runs
    /\ driver \in Drivers
    /\ readable \in BOOLEAN
    /\ fsFiles \in {F \in SUBSET FolderFiles :
                       /\ Cardinality(F) <= MaxFirstFiles
                       /\ readable \/ F = {}}
    /\ pending \in FolderLists
    /\ written = [f \in OutputFiles |-> 0]
    /\ writtenBefore = written
    /\ remaining = {}
    /\ totalProcessed = 0 /\ totalSkipped = 0 /\ totalErrors = 0
    /\ firstRun = NoTotals
    /\ listed = 0 /\ failedReads = 0

\* what a failed fs.readdir adds to totalErrors: the catch of cutout lines
\* 368-371 and part_003 lines 713-716 counts it, walkDirectory's catch
\* (gen_outlines lines 70-74) only warns
ReadError(d, n) == IF d = "outline" THEN n ELSE CountError(n)

\* the listing of the first folder fails
ReadDirFails ==
    /\ dpc = "start" /\ ~readable
    /\ remaining' = {}
    /\ totalProcessed' = 0 /\ totalSkipped' = 0
    /\ totalErrors' = ReadError(driver, 0)
    /\ writtenBefore' = written
    /\ listed' = 0 /\ failedReads' = 1
    /\ dpc' = "loop"
    /\ UNCHANGED <<driver, fsFiles, written, run, firstRun, readable, pending>>
    /\ UNCHANGED notBatch

\* the loop over the files of a folder has ended: the next folder is listed
OpenFolder ==
    /\ dpc = "loop" /\ remaining = {} /\ pending # <<>>
    /\ Head(pending).readable
    /\ fsFiles' = Head(pending).files
    /\ remaining' = Head(pending).files
    /\ readable' = TRUE
    /\ pending' = Tail(pending)
    /\ listed' = listed + Cardinality(Sources(driver, Head(pending).files))
    /\ UNCHANGED <<dpc, driver, written, totalProcessed, totalSkipped,
                   totalErrors, run, firstRun, writtenBefore, failedReads>>
    /\ UNCHANGED notBatch

\* the listing of the next folder fails
OpenFolderFails ==
    /\ dpc = "loop" /\ remaining = {} /\ pending # <<>>
    /\ ~Head(pending).readable
    /\ fsFiles' = {}
    /\ readable' = FALSE
    /\ pending' = Tail(pending)
    /\ totalErrors' = ReadError(driver, totalErrors)
    /\ failedReads' = failedReads + 1
    /\ UNCHANGED <<dpc, driver, written, remaining, totalProcessed,
                   totalSkipped, run, firstRun, writtenBefore, listed>>
    /\ UNCHANGED notBatch

NextFolders ==
    \/ ReadDir \/ ReadDirFails \/ SkipOther \/ SkipExisting \/ Generate
    \/ GenerateFails \/ OpenFolder \/ OpenFolderFails \/ FinishRun

\* the loops are sequential code: a run that can take a step takes one
SpecFolders == InitFolders /\ [][NextFolders]_vars /\ WF_vars(NextFolders)

----------------------------------------------------------------------------
(* The sizes of the buffers of cutoutBorderOnly, makeStickerBorder with    *)
(* createRasterSmoothBorder, and add_bevel's main.  A buffer is followed   *)
(* as its length in elements together with the width, height and channel   *)
(* count it is used with.  strokePx is any number between 1 and 500 (line  *)
(* 349 clamps, it does not round), so widths and heights are in tenths of  *)
(* a pixel and a size passed to an allocation is in hundredths.            *)

Sized(len, w, h, c) == [length |-> len, width |-> w, height |-> h, channels |-> c]

\* the length of Buffer.alloc(size), new Uint8Array(size) and new
\* Float32Array(size): ToIndex drops the fraction of size
ToIndex(hundredths) == hundredths \div 100

\* .ensureAlpha().raw().toBuffer() of a w x h image: w*h*4 bytes
RawRGBA(w, h) == Sized(w * h * 4, w * 10, h * 10, 4)

\* part_003 line 349, in tenths
EffStrokeTenths(arg) ==
    Max(10, Min(5000, NumberOr(arg, DefaultStrokePx * 10)))

\* cutout lines 41, 50, 111, 121-124, 199, 213
CutoutSizes(d, w, h) ==
    [data |-> d,
     nearWhite |-> Sized(ToIndex(w * h * 100), w * 10, h * 10, 1),
     bg |-> Sized(ToIndex(w * h * 100), w * 10, h * 10, 1),
     out |-> Sized(d.length, w * 10, h * 10, 4),
     cleanedImage |-> RawRGBA(w, h),
     final |-> Sized(RawRGBA(w, h).length, w * 10, h * 10, 4),
     despeckled |-> Sized(RawRGBA(w, h).length, w * 10, h * 10, 4)]

\* part_003 lines 367, 381-388, 555-571 (1078-1081 in the falloff builder)
StickerSizes(d, w, h, stroke) ==
    LET padding == stroke
        nw == w * 10 + padding * 2
        nh == h * 10 + padding * 2
    IN  [data |-> d,
         rgba |-> Sized(d.length, w * 10, h * 10, 4),
         expandedData |-> Sized(ToIndex(nw * nh * 4), nw, nh, 4),
         borderData |-> Sized(ToIndex(nw * nh * 4), nw, nh, 4),
         binaryMask |-> Sized(ToIndex(nw * nh), nw, nh, 1),
         distanceField |-> Sized(ToIndex(nw * nh), nw, nh, 1)]

\* part_003 lines 1399-1431
BevelSizes(d, w, h) ==
    [rgba |-> d,
     alphaMask |-> Sized(ToIndex(w * h * 100), w * 10, h * 10, 1),
     rimMask |-> Sized(ToIndex(w * h * 100), w * 10, h * 10, 1),
     height |-> Sized(ToIndex(w * h * 100), w * 10, h * 10, 1),
     shadowRGBA |-> Sized(ToIndex(w * h * 4 * 100), w * 10, h * 10, 4),
     highlightRGBA |-> Sized(ToIndex(w * h * 4 * 100), w * 10, h * 10, 4)]

SizeTools == {"cutoutBorderOnly", "makeStickerBorder", "add_bevel"}
\* strokePx not passed, 1, 1.2, 1.5 and 2.5
StrokeTenths == {Undefined, Num(10), Num(12), Num(15), Num(25)}

InitSizes ==
    /\ CutoutIdle /\ ChamferIdle /\ StickerIdle /\ BevelIdle /\ ArgsIdle
    /\ StoreIdle
    /\ EditorIdle
    /\ FloodIdle
    /\ BatchIdle
    /\ zpc = "start"
    /\ sizeTool \in SizeTools
    /\ imgW \in 1 .. MaxDim /\ imgH \in 1 .. MaxDim
    /\ strokeIn \in (IF sizeTool = "makeStickerBorder" THEN StrokeTenths
                      ELSE {Undefined})
    /\ buffers = <<>>

\* the decoded input (cutout lines 32-37, part_003 lines 357-362 and 1399)
Decode ==
    /\ zpc = "start"
    /\ buffers' = IF sizeTool = "add_bevel" THEN [rgba |-> RawRGBA(imgW, imgH)]
                  ELSE [data |-> RawRGBA(imgW, imgH)]
    /\ zpc' = "decoded"
    /\ UNCHANGED <<sizeTool, imgW, imgH, strokeIn>>
    /\ UNCHANGED notSizes

CutoutAllocations ==
    /\ zpc = "decoded" /\ sizeTool = "cutoutBorderOnly"
    /\ buffers' = CutoutSizes(buffers.data, imgW, imgH)
    /\ zpc' = "built"
    /\ UNCHANGED <<sizeTool, imgW, imgH, strokeIn>>
    /\ UNCHANGED notSizes

StickerAllocations ==
    /\ zpc = "decoded" /\ sizeTool = "makeStickerBorder"
    /\ buffers' = StickerSizes(buffers.data, imgW, imgH,
                               EffStrokeTenths(strokeIn))
    /\ zpc' = "built"
    /\ UNCHANGED <<sizeTool, imgW, imgH, strokeIn>>
    /\ UNCHANGED notSizes

BevelAllocations ==
    /\ zpc = "decoded" /\ sizeTool = "add_bevel"
    /\ buffers' = BevelSizes(buffers.rgba, imgW, imgH)
    /\ zpc' = "built"
    /\ UNCHANGED <<sizeTool, imgW, imgH, strokeIn>>
    /\ UNCHANGED notSizes

NextSizes ==
    Decode \/ CutoutAllocations \/ StickerAllocations \/ BevelAllocations

SpecSizes == InitSizes /\ [][NextSizes]_vars

----------------------------------------------------------------------------
(* The flood fill of cutout lines 49-77 with the worklist taken in any     *)
(* order: the loop removes an arbitrary element of q where the code pops   *)
(* the last one; seeding and pushIf are the code's.                        *)

\* q without its k-th element
Without(q, k) == SubSeq(q, 1, k - 1) \o SubSeq(q, k + 1, Len(q))

\* how often i occurs in q from position `from` on
Pushes(q, from, i) == Cardinality({k \in from .. Len(q) : q[k] = i})

InitFlood ==
    /\ CutoutIdle /\ ChamferIdle /\ StickerIdle /\ BevelIdle /\ ArgsIdle
    /\ StoreIdle
    /\ EditorIdle
    /\ BatchIdle /\ SizesIdle
    /\ fpc = "start"
    /\ floodW \in 1 .. FloodW /\ floodH \in 1 .. FloodH
    /\ floodNear \in [Pixels(floodW, floodH) -> {0, 1}]
    /\ work = [bg |-> [i \in Pixels(floodW, floodH) |-> 0], q |-> <<>>,
               n |-> floodW * floodH]
    /\ pushed = [i \in Pixels(floodW, floodH) |-> 0]
    /\ offered = 0

\* lines 60-67: the next pushIf call of the seeding loops
FloodSeed ==
    /\ fpc = "start"
    /\ LET order == SeedOrder(floodW, floodH)
           next == PushIf(work, order[offered + 1], floodNear)
       IN  /\ work' = next
           /\ pushed' = [j \in DOMAIN pushed |->
                            pushed[j] + Pushes(next.q, Len(work.q) + 1, j)]
           /\ offered' = offered + 1
           /\ fpc' = IF offered + 1 = Len(order) THEN "loop" ELSE "start"
    /\ UNCHANGED <<floodW, floodH, floodNear>>
    /\ UNCHANGED notFlood

\* one iteration of lines 70-77 on the k-th element of q
FloodTake ==
    /\ fpc = "loop"
    /\ \E k \in 1 .. Len(work.q) :
          LET i == work.q[k]
              rest == [work EXCEPT !.q = Without(work.q, k)]
              next == PushAll(rest, FloodNeighbours(i, floodW, floodH),
                              floodNear)
          IN  /\ work' = next
              /\ pushed' = [j \in DOMAIN pushed |->
                               pushed[j] + Pushes(next.q, Len(rest.q) + 1, j)]
    /\ UNCHANGED <<fpc, floodW, floodH, floodNear, offered>>
    /\ UNCHANGED notFlood

\* line 70: q is empty
FloodEnd ==
    /\ fpc = "loop" /\ work.q = <<>>
    /\ fpc' = "done"
    /\ UNCHANGED <<floodW, floodH, floodNear, work, pushed, offered>>
    /\ UNCHANGED notFlood

NextFlood == FloodSeed \/ FloodTake \/ FloodEnd

\* the loop is sequential code: it runs while it can
SpecFlood == InitFlood /\ [][NextFlood]_vars /\ WF_vars(NextFlood)

----------------------------------------------------------------------------
(* Reference notions used by the properties *)

Px == Pixels(W, H)
OnEdge(i) == XOf(i, W) = 0 \/ XOf(i, W) = W - 1 \/ YOf(i, W) = 0 \/ YOf(i, W) = H - 1
EdgeDistance(i) ==
    Min(Min(XOf(i, W), W - 1 - XOf(i, W)), Min(YOf(i, W), H - 1 - YOf(i, W)))
Adjacent4(i, j) ==
    Abs(XOf(i, W) - XOf(j, W)) + Abs(YOf(i, W) - YOf(j, W)) = 1
Adjacent8(i, j) ==
    i # j /\ Abs(XOf(i, W) - XOf(j, W)) <= 1 /\ Abs(YOf(i, W) - YOf(j, W)) <= 1

\* near-white by the claim's words: luminance >= the tolerance in force
IsNearWhite(i) == Luminance1000(data[i]) >= 1000 * tolerance

\* the pixels of T reachable from S by steps of 4-adjacency inside T
RECURSIVE Reach4(_, _)
Reach4(S, T) ==
    LET more == {j \in T \ S : \E i \in S : Adjacent4(i, j)}
    IN  IF more = {} THEN S ELSE Reach4(S \cup more, T)

RECURSIVE Reach8(_, _)
Reach8(S, T) ==
    LET more == {j \in T \ S : \E i \in S : Adjacent8(i, j)}
    IN  IF more = {} THEN S ELSE Reach8(S \cup more, T)

NearWhiteSet == {i \in Px : IsNearWhite(i)}
BorderConnected == Reach4({i \in NearWhiteSet : OnEdge(i)}, NearWhiteSet)
BgSet == {i \in Px : bg[i] = 1}

AfterFlood == pc \notin {"idle", "start", "marked"}
AfterAlpha == pc \in {"alpha", "cleaned", "selected", "done"}

----------------------------------------------------------------------------
(* C1: when the border flood fill has finished, bg holds exactly the       *)
(* near-white pixels (luminance >= tolerance) joined to a near-white       *)
(* pixel of one of the four image edges by a path of 4-adjacent            *)
(* near-white pixels; an enclosed near-white region is not marked, a       *)
(* near-white patch touching the edge is.                                  *)
C1_FloodExact ==
    pc = "flooded" =>
        /\ DOMAIN bg = Px
        /\ \A i \in Px : bg[i] \in {0, 1}
        /\ BgSet = BorderConnected

\* an enclosed near-white island left unmarked beside a marked edge patch
C1_Witness ==
    /\ pc = "flooded"
    /\ \E i \in Px : IsNearWhite(i) /\ ~OnEdge(i) /\ bg[i] = 0
    /\ \E j \in Px : OnEdge(j) /\ bg[j] = 1
    /\ \E k \in Px : OnEdge(k) /\ bg[k] = 0

----------------------------------------------------------------------------
SameRGB(p, q) == p[1] = q[1] /\ p[2] = q[2] /\ p[3] = q[3]

(* C2 as stated: the removal step changes alpha only inside the background *)
(* mask: every pixel outside the mask has its input alpha in the output,   *)
(* and every pixel keeps its RGB.                                          *)
C2_Original ==
    pc = "alpha" =>
        \A i \in Px :
            /\ SameRGB(out[i], data[i])
            /\ bg[i] = 0 => out[i][4] = data[i][4]

(* C2 amended: a pixel of the mask gets alpha 0; a pixel outside the mask  *)
(* keeps its input alpha when that is not 0 and gets alpha 255 when it is  *)
(* 0; every pixel keeps its RGB.                                           *)
C2_AlphaAssignment ==
    pc = "alpha" =>
        \A i \in Px :
            /\ SameRGB(out[i], data[i])
            /\ bg[i] = 1 => out[i][4] = 0
            /\ (bg[i] = 0 /\ data[i][4] # 0) => out[i][4] = data[i][4]
            /\ (bg[i] = 0 /\ data[i][4] = 0) => out[i][4] = 255

\* all three cases in one output
C2_Witness ==
    /\ pc = "alpha"
    /\ \E i \in Px : bg[i] = 1 /\ data[i][4] = 255 /\ out[i][4] = 0
    /\ \E i \in Px : bg[i] = 0 /\ data[i][4] = 0 /\ out[i][4] = 255
    /\ \E i \in Px : bg[i] = 0 /\ data[i][4] = 255 /\ out[i][4] = 255

----------------------------------------------------------------------------
AllWhite == \A i \in Px : Luminance1000(data[i]) = 255000

(* C3: an input whose every pixel has luminance 255, cut out with any      *)
(* tolerance <= 255 and any permitted feather (the default included),      *)
(* comes out with alpha 0 at every pixel, edge pixels included.            *)
C3_AllWhiteTransparent ==
    (pc = "done" /\ AllWhite) => \A i \in Px : despeckled[i][4] = 0

----------------------------------------------------------------------------
----------------------------------------------------------------------------
(* Reference notions on the input for the round trip *)

AlphaBinary == \A i \in Px : data[i][4] \in {0, 255}
OpaqueIn(buf) == {i \in Px : buf[i][4] > 128}
TransparentIn(buf) == {i \in Px : buf[i][4] = 0}

\* the 8-connected components of a pixel set
ComponentsOf(S) == {Reach8({i}, S) : i \in S}

\* the border-connected near-white region at the default tolerance
RefNearWhite == {i \in Px : Luminance1000(data[i]) >= 1000 * DefaultTolerance}
RefBackground == Reach4({i \in RefNearWhite : OnEdge(i)}, RefNearWhite)

\* a set eroded by r: the pixels whose (2r+1)-window is in the image and the set
Eroded(S, r) ==
    {i \in S : /\ EdgeDistance(i) >= r
                /\ \A j \in Px :
                      (Abs(XOf(i, W) - XOf(j, W)) <= r /\ Abs(YOf(i, W) - YOf(j, W)) <= r)
                          => j \in S}

\* interior opaque pixels the despeckle rule would clear
Speckles(buf) ==
    {i \in Px : /\ EdgeDistance(i) >= 1
                 /\ buf[i][4] >= 50
                 /\ Cardinality({j \in Px : Adjacent8(i, j) /\ buf[j][4] < 50}) >= 6}

----------------------------------------------------------------------------
(* Reference notions for the component selection *)

Comps == ComponentsOf(OpaqueIn(cleanedImage))
MaxCount == CHOOSE n \in {Cardinality(c) : c \in Comps} :
                \A c \in Comps : Cardinality(c) <= n
FirstPixel(c) == CHOOSE i \in c : \A j \in c : i <= j
Untouched(c) == \A i \in c : final[i] = cleanedImage[i]
Zeroed(c) == \A i \in c : final[i][4] = 0

(* C6: after the component selection the opaque pixels are exactly the     *)
(* single largest 8-connected component of the opaque mask: the pixels of  *)
(* every other component have alpha 0 and the largest is unaltered.        *)
C6_OnlyLargestRemains ==
    (pc = "selected" /\ Comps # {}) =>
        \E L \in Comps :
            /\ Cardinality(L) = MaxCount
            /\ OpaqueIn(final) = L
            /\ Untouched(L)
            /\ \A c \in Comps \ {L} : Zeroed(c)

(* C7: every component of fewer than 10 pixels is transparent after the    *)
(* selection, whatever other components exist (also when none reaches the  *)
(* minimum size); a component of exactly 10 pixels is not discarded for    *)
(* its size.                                                               *)
C7_SmallComponentsDiscarded ==
    pc = "selected" =>
        \A c \in Comps :
            /\ Cardinality(c) < MinComponentSize => Zeroed(c)
            /\ (Cardinality(c) = MinComponentSize /\ Cardinality(Comps) = 1)
                  => Untouched(c)

(* C8: when several components share the maximum pixel count, the one      *)
(* whose first pixel is earliest in raster order is kept and the others    *)
(* are zeroed.                                                             *)
C8_TieKeepsFirst ==
    (pc = "selected" /\ Comps # {}) =>
        LET largest == {c \in Comps : Cardinality(c) = MaxCount}
        IN  Cardinality(largest) >= 2 =>
                \E L \in largest :
                    /\ \A c \in largest : FirstPixel(L) <= FirstPixel(c)
                    /\ Untouched(L)
                    /\ \A c \in largest \ {L} : Zeroed(c)

----------------------------------------------------------------------------
TransparentAround(buf, i) ==
    Cardinality({j \in Px : Adjacent8(i, j) /\ buf[j][4] < 50})

(* C9: after the despeckle pass every opaque pixel of the pre-pass image   *)
(* with at least 6 transparent pixels among its neighbours is transparent, *)
(* every opaque pixel with fewer than 6 is unchanged (pixels of the first  *)
(* and last row and column included), and the counts are those of the      *)
(* pre-pass image.                                                         *)
C9_Despeckle ==
    pc = "done" =>
        \A i \in Px :
            final[i][4] >= 50 =>
                IF TransparentAround(final, i) >= 6
                THEN despeckled[i][4] = 0 /\ SameRGB(despeckled[i], final[i])
                ELSE despeckled[i] = final[i]

\* a pixel cleared and a later neighbour of it kept, which a count that
\* took the pixels already cleared for transparent would have cleared too;
\* an edge pixel with no opaque neighbour kept
C9_Witness ==
    /\ pc = "done"
    /\ \E k \in Px :
          /\ EdgeDistance(k) >= 1
          /\ final[k][4] >= 50 /\ despeckled[k] = final[k]
          /\ TransparentAround(final, k) < 6
          /\ Cardinality({j \in Px : /\ Adjacent8(k, j)
                                      /\ \/ final[j][4] < 50
                                         \/ j < k /\ despeckled[j][4] = 0}) >= 6
    /\ \E j \in Px :
          /\ OnEdge(j) /\ final[j][4] >= 50 /\ despeckled[j] = final[j]
          /\ \A n \in Px : Adjacent8(j, n) => final[n][4] < 50

----------------------------------------------------------------------------
(* Reference notions for the distance field *)

CPx == Pixels(newW, newH)
Seeds == {i \in CPx : mask[i] = 1}

\* min(|dx|,|dy|) * sqrt2 + (max(|dx|,|dy|) - min(|dx|,|dy|))
ChamferMetric(p, q) ==
    LET dx == Abs(XOf(p, newW) - XOf(q, newW))
        dy == Abs(YOf(p, newW) - YOf(q, newW))
    IN  Dist(Min(dx, dy), Max(dx, dy) - Min(dx, dy))

NearestSeed(p) ==
    IF Seeds = {} THEN INF
    ELSE LET best == CHOOSE q \in Seeds :
                        \A r \in Seeds : LessEq(ChamferMetric(p, q), ChamferMetric(p, r))
         IN  ChamferMetric(p, best)

\* the weight of the step between two 8-adjacent pixels
StepFrom(v, p, q) ==
    IF XOf(p, newW) # XOf(q, newW) /\ YOf(p, newW) # YOf(q, newW)
    THEN PlusSqrt2(v) ELSE PlusOne(v)
CAdjacent8(p, q) ==
    p # q /\ Abs(XOf(p, newW) - XOf(q, newW)) <= 1 /\ Abs(YOf(p, newW) - YOf(q, newW)) <= 1

(* C10: after the forward and the backward pass the field is the exact     *)
(* chamfer distance at every pixel of the canvas: df[p] is the minimum     *)
(* over the seeds of min(|dx|,|dy|)*sqrt2 + (max(|dx|,|dy|)-min(|dx|,|dy|)),*)
(* and no relaxation from any of the 8 neighbours could lower a value.     *)
C10_ChamferExact ==
    cpc = "done" =>
        /\ \A p \in CPx : df[p] = NearestSeed(p)
        /\ \A p, q \in CPx : CAdjacent8(p, q) => LessEq(df[p], StepFrom(df[q], q, p))

\* a single seed, a pixel up and to the left of it, which only the backward
\* pass reaches, and one below and to the right, each at an offset with a
\* diagonal and a straight part
C10_Witness ==
    /\ cpc = "done"
    /\ \E q \in CPx :
          /\ Seeds = {q}
          /\ \E p \in CPx :
                /\ XOf(q, newW) - XOf(p, newW) = 2 /\ YOf(q, newW) - YOf(p, newW) = 1
                /\ df[p] = Dist(1, 1)
          /\ \E p \in CPx :
                /\ XOf(p, newW) - XOf(q, newW) = 1 /\ YOf(p, newW) - YOf(q, newW) = 2
                /\ df[p] = Dist(1, 1)

----------------------------------------------------------------------------
(* Reference notions for the sticker border *)

SPx == Pixels(canvasW, canvasH)
FieldLive == spc \in {"forward", "backward", "field", "done"} /\ variant # "vectorSmooth"
\* the seeds of the builder that is running
SeedPixel(i) ==
    IF variant = "raster" THEN expandedData[i][4] > 127 ELSE expandedData[i][4] > 0
Sentinel == Dist(0, 2 * strokePx)
Zero == Dist(0, 0)
OuterRing(i) ==
    \/ XOf(i, canvasW) = 0 \/ XOf(i, canvasW) = canvasW - 1
    \/ YOf(i, canvasW) = 0 \/ YOf(i, canvasW) = canvasH - 1

FieldBounded ==
    FieldLive =>
        \A i \in SPx :
            /\ LessEq(Zero, distanceField[i])
            /\ (distanceField[i] = Zero <=> SeedPixel(i))
            /\ LessEq(distanceField[i], Sentinel)
PassNeverIncreases ==
    (spc \in {"forward", "backward"}) =>
        \A i \in SPx : LessEq(distanceField'[i], distanceField[i])

(* C11: in createRasterSmoothBorder, at every point during and after the   *)
(* two passes every value of the distance field is non-negative, is 0 at   *)
(* exactly the seed pixels and is at most the sentinel 2*strokePx, and no  *)
(* iteration of a pass increases any value.                                *)
C11_FieldInvariant == []FieldBounded /\ [][PassNeverIncreases]_vars

\* both passes have run: there are a seed, a pixel that the backward pass
\* lowered below the sentinel, and a pixel that still holds the sentinel
C11_Witness ==
    /\ spc = "field" /\ variant = "raster"
    /\ \E i \in SPx : SeedPixel(i)
    /\ \E i \in SPx :
          /\ ~SeedPixel(i) /\ distanceField[i] # Sentinel
          /\ \A j \in SPx : SeedPixel(j) => j > i
    /\ \E i \in SPx : distanceField[i] = Sentinel

----------------------------------------------------------------------------
\* chamfer distance between two pixels of the sticker canvas
CanvasMetric(p, q) ==
    LET dx == Abs(XOf(p, canvasW) - XOf(q, canvasW))
        dy == Abs(YOf(p, canvasW) - YOf(q, canvasW))
    IN  Dist(Min(dx, dy), Max(dx, dy) - Min(dx, dy))
SubjectPixels == {i \in SPx : expandedData[i][4] > 0}
WithinStroke(i, S) == \E q \in S : LessEq(CanvasMetric(i, q), Dist(0, strokePx))

(* C12: in the output of makeStickerBorder (raster mode) every pixel of    *)
(* the expanded canvas whose original alpha is 0, the outermost rows and   *)
(* columns included, is opaque white if and only if its chamfer distance   *)
(* to the nearest subject pixel is <= strokePx, and is fully transparent   *)
(* otherwise.                                                              *)
C12_BorderWithinStroke ==
    (spc = "done" /\ variant = "raster") =>
        \A i \in SPx :
            expandedData[i][4] = 0 =>
                borderData[i] = (IF WithinStroke(i, SubjectPixels)
                                 THEN WhitePixel ELSE ClearPixel)

----------------------------------------------------------------------------
(* C13: in add_second_edge the ring alpha of a pixel is 255 if and only if *)
(* the pixel is background (mask 0) and its distance d satisfies           *)
(* inner < d <= outer with inner = offsetPx and outer = offsetPx + edgePx,  *)
(* and is 0 otherwise; no subject pixel (mask 1) is part of the ring.      *)
C13_RingAlpha ==
    cpc = "ring" =>
        \A i \in CPx :
            LET d == NearestSeed(i)
                inRing == /\ mask[i] = 0
                          /\ ~LessEq(d, Dist(0, offsetPx))
                          /\ LessEq(d, Dist(0, offsetPx + edgePx))
            IN  /\ ringA[i] = (IF inRing THEN 255 ELSE 0)
                /\ (mask[i] = 1 => ringA[i] = 0)

\* inner = 5, outer = 10: background pixels at distance 7 and 10 are in the
\* ring, those at distance 3, 5 and 12 are not, nor is the subject pixel
C13_Witness ==
    /\ cpc = "ring" /\ offsetPx = 5 /\ edgePx = 5
    /\ \E i \in CPx : mask[i] = 1 /\ ringA[i] = 0
    /\ \E i \in CPx : mask[i] = 0 /\ df[i] = Dist(0, 7) /\ ringA[i] = 255
    /\ \E i \in CPx : mask[i] = 0 /\ df[i] = Dist(0, 10) /\ ringA[i] = 255
    /\ \E i \in CPx : mask[i] = 0 /\ df[i] = Dist(0, 3) /\ ringA[i] = 0
    /\ \E i \in CPx : mask[i] = 0 /\ df[i] = Dist(0, 5) /\ ringA[i] = 0
    /\ \E i \in CPx : mask[i] = 0 /\ df[i] = Dist(0, 12) /\ ringA[i] = 0

----------------------------------------------------------------------------
\* n = round(255 * ((strokePx - d) / strokePx)^k) for a distance d <=
\* strokePx: n - 1/2 <= 255 * (strokePx - d)^k / strokePx^k < n + 1/2
IsRounded(n, d, k) ==
    LET x == SurdPow(Surd(strokePx - d.s, 0 - d.d), k)
        sk == IntPow(strokePx, k)
    IN  /\ SurdNonNeg(Surd(510 * x.s - (2 * n - 1) * sk, 510 * x.d))
        /\ ~SurdNonNeg(Surd(510 * x.s - (2 * n + 1) * sk, 510 * x.d))
Background == {i \in SPx : expandedData[i][4] = 0}

(* C14: in the smooth-falloff builder a background pixel at distance d     *)
(* gets border alpha round(255 * clamp(1 - d/strokePx, 0, 1)^(1/softness)); *)
(* the alpha is within 0..255, is non-increasing as d grows, and is 0 for  *)
(* every background pixel with d >= strokePx.                              *)
C14_Falloff ==
    (spc = "done" /\ variant = "falloff") =>
        /\ \A i \in Background :
              LET d == distanceField[i]
                  a == borderData[i][4]
              IN  /\ a \in 0 .. 255
                  /\ IF LessEq(Dist(0, strokePx), d) THEN a = 0
                     ELSE IsRounded(a, d, Exponent(softness))
                  /\ (a > 0 => borderData[i] = <<255, 255, 255, a>>)
        /\ \A i, j \in Background :
              LessEq(distanceField[i], distanceField[j])
                  => borderData[i][4] >= borderData[j][4]

\* softness 0.5: background pixels at distance 1 and sqrt2 with a partial
\* alpha, one at distance strokePx exactly and one beyond it with alpha 0
C14_Witness ==
    /\ spc = "done" /\ variant = "falloff" /\ softness = 5 /\ strokePx = 2
    /\ \E i \in Background : distanceField[i] = Dist(0, 1) /\ borderData[i][4] = 64
    /\ \E i \in Background : distanceField[i] = Dist(1, 0) /\ borderData[i][4] = 22
    /\ \E i \in Background : distanceField[i] = Dist(0, 2) /\ borderData[i][4] = 0
    /\ \E i \in Background : distanceField[i] = Dist(0, 4) /\ borderData[i][4] = 0

----------------------------------------------------------------------------
SrcPx == Pixels(srcW, srcH)
\* where source pixel i lands on the canvas
Shifted(i) == (YOf(i, srcW) + strokePx) * canvasW + (XOf(i, srcW) + strokePx)

----------------------------------------------------------------------------
(* Reference notions for the bevel *)

BPx == Pixels(bevW, bevH)
\* a 3x3 erosion of a pixel set: the pixels whose whole 3x3 neighbourhood
\* lies in the image and in the set
RefErode(S) ==
    {i \in S : \A dy \in -1 .. 1, dx \in -1 .. 1 :
        LET x == XOf(i, bevW) + dx
            y == YOf(i, bevW) + dy
        IN  x >= 0 /\ x < bevW /\ y >= 0 /\ y < bevH /\ (y * bevW + x) \in S}
RECURSIVE RefErodeTimes(_, _)
RefErodeTimes(S, n) == IF n = 0 THEN S ELSE RefErodeTimes(RefErode(S), n - 1)
RefRim ==
    LET sticker == {i \in BPx : bevAlpha[i] > 0}
    IN  sticker \ RefErodeTimes(sticker, clamp(bevelPx, 1, 50))

(* C16: in the bevel tool the shadow and the highlight layer are zero in   *)
(* every channel at every pixel outside the rim, the rim being the pixels  *)
(* with alpha > 0 that are not in the result of r successive 3x3 erosions  *)
(* of the alpha mask: no pixel with alpha 0 and no pixel surviving the     *)
(* erosion receives any shading.                                           *)
C16_ShadingOnlyOnRim ==
    bpc = "shaded" =>
        \A i \in BPx :
            i \notin RefRim =>
                shadowRGBA[i] = ZeroPixel /\ highlightRGBA[i] = ZeroPixel

\* the fully opaque image with r = 1: the centre survives the erosion and
\* is unshaded while the rim around it carries the highlight colour; and
\* nothing outside the rim is shaded
C16_Witness ==
    /\ bpc = "shaded" /\ rimR = 1
    /\ \E i \in BPx :
          /\ eroded[i] = 1 /\ bevAlpha[i] > 0
          /\ shadowRGBA[i] = ZeroPixel /\ highlightRGBA[i] = ZeroPixel
    /\ \E i \in RefRim : highlightRGBA[i] # ZeroPixel

----------------------------------------------------------------------------
RimPixels == {i \in BPx : rimMask[i] = 1}
DotAt(i) == DotNum(gx[i], gy[i], LightVector(lightDir))
Den2At(i) == DotDen2(gx[i], gy[i], LightVector(lightDir))
\* n = round(255 * intensity * |dot|), intensity in twentieths
IsShadeOf(n, i) ==
    IF Den2At(i) = 0 THEN n = 0
    ELSE LET rhs == 51 * intensity * Abs(DotAt(i))
         IN  /\ n = 0 \/ (2 * n - 1) * (2 * n - 1) * 4 * Den2At(i) <= rhs * rhs
             /\ (2 * n + 1) * (2 * n + 1) * 4 * Den2At(i) > rhs * rhs
\* round(255 * intensity)
MaxShade == (255 * intensity + 10) \div 20

(* C17: for every rim pixel the bevel tool writes to exactly one of the    *)
(* two layers according to the sign of dot = normalised gradient . light:  *)
(* dot < 0 gives shadow alpha round(255*intensity*|dot|) in black and a    *)
(* zero highlight pixel, dot >= 0 gives highlight alpha                    *)
(* round(255*intensity*dot) in white and a zero shadow pixel; no pixel has *)
(* non-zero alpha in both layers; dot = -1 gives the maximum shadow alpha  *)
(* round(255*intensity) and dot = +1 the maximum highlight alpha.          *)
C17_OneLayerPerRimPixel ==
    bpc = "shaded" =>
        /\ \A i \in RimPixels :
              IF DotAt(i) < 0
              THEN /\ SameRGB(shadowRGBA[i], <<0, 0, 0, 0>>)
                   /\ IsShadeOf(shadowRGBA[i][4], i)
                   /\ highlightRGBA[i] = ZeroPixel
                   /\ (DotAt(i) * DotAt(i) = Den2At(i) => shadowRGBA[i][4] = MaxShade)
              ELSE /\ SameRGB(highlightRGBA[i], <<255, 255, 255, 0>>)
                   /\ IsShadeOf(highlightRGBA[i][4], i)
                   /\ shadowRGBA[i] = ZeroPixel
                   /\ ((DotAt(i) * DotAt(i) = Den2At(i) /\ Den2At(i) > 0)
                          => highlightRGBA[i][4] = MaxShade)
        /\ \A i \in BPx : shadowRGBA[i][4] = 0 \/ highlightRGBA[i][4] = 0

\* intensity 0.35 and a rim pixel whose gradient is directly opposite the
\* light: shadow alpha round(255 * 0.35) = 89 and no highlight; another rim
\* pixel is in the highlight layer only
C17_Witness ==
    /\ bpc = "shaded" /\ intensity = 7
    /\ \E i \in RimPixels :
          /\ DotAt(i) < 0 /\ DotAt(i) * DotAt(i) = Den2At(i)
          /\ shadowRGBA[i] = <<0, 0, 0, 89>> /\ highlightRGBA[i] = ZeroPixel
    /\ \E i \in RimPixels :
          highlightRGBA[i][1] = 255 /\ shadowRGBA[i] = ZeroPixel

----------------------------------------------------------------------------
InRange(val, lo, hi) == val.t = "num" /\ val.v >= lo /\ val.v <= hi

(* C18: for every argument value a caller can pass (missing, empty,        *)
(* non-numeric, zero, negative, above the maximum) the effective parameter *)
(* lies inside its documented range: strokePx in [1,500] and softness in   *)
(* [0.1,5.0] in makeStickerBorder, bevelPx in [1,50] and intensity in      *)
(* [0,1] in add_bevel.                                                     *)
C18_ParamsInRange ==
    apc = "parsed" =>
        /\ tool = "makeStickerBorder" =>
              InRange(params.strokePx, 1, 500) /\ InRange(params.softness, 1, 50)
        /\ tool = "add_bevel" =>
              InRange(params.bevelPx, 1, 50) /\ InRange(params.intensity, 0, 20)

----------------------------------------------------------------------------
\* a supplied value inside lo..hi is used as it is; any other number is
\* clamped to lo..hi and a missing or non-numeric value gives the default
Honoured(arg, eff, lo, hi, default) ==
    IF arg.t = "num" THEN eff = Num(clamp(arg.v, lo, hi))
    ELSE eff = Num(default)

(* C19: cutoutBorderOnly uses any supplied value that already lies in the  *)
(* documented range unchanged (tolerance 0..255, feather 0..5, preblur     *)
(* 0..2), the documented lower bound 0 of each included; only out-of-range *)
(* or missing values are replaced by a clamped value or the default.       *)
C19_DocumentedRangeKept ==
    (apc = "parsed" /\ tool = "cutoutBorderOnly") =>
        /\ Honoured(argv.tolerance, params.tolerance, 0, 255, DefaultTolerance)
        /\ Honoured(argv.feather, params.feather, 0, 5, DefaultFeather)
        /\ Honoured(argv.preblur, params.preblur, 0, 20, DefaultPreblur)

----------------------------------------------------------------------------
\* the step visits a source file whose output path exists
VisitsDone ==
    /\ dpc = "loop" /\ dpc' = "loop"
    /\ \E f \in remaining \ remaining' :
          IsSource(driver, f) /\ OutputPath(driver, f) \in fsFiles
SkipsOnly ==
    VisitsDone =>
        /\ written' = written /\ fsFiles' = fsFiles
        /\ totalProcessed' = totalProcessed
        /\ totalSkipped' = totalSkipped + 1
SecondRunIdle ==
    (run >= 2 /\ dpc \in {"loop", "done"} /\ firstRun.errors = 0) =>
        totalProcessed = 0 /\ written = writtenBefore

(* C20: in every batch driver a source file whose output path already      *)
(* exists is never processed and its output is never rewritten; it is      *)
(* counted as skipped.  Consequently a second batch run started right      *)
(* after a run with zero errors processes zero files and leaves all        *)
(* outputs untouched.                                                      *)
C20_SkipExisting == [][SkipsOnly]_vars /\ []SecondRunIdle

\* a first run without errors that generated an output and skipped the
\* second source of the same output, then a finished second run that only
\* skipped
C20_Witness ==
    /\ dpc = "done" /\ run = 2
    /\ firstRun.errors = 0 /\ firstRun.processed >= 2 /\ firstRun.skipped >= 1
    /\ totalProcessed = 0 /\ totalSkipped >= 3
    /\ \E f \in OutputFiles : written[f] = 1

----------------------------------------------------------------------------
\* the step visits the source file f of the current listing
Visits(f) ==
    /\ dpc = "loop" /\ f \in remaining /\ IsSource(driver, f)
    /\ remaining' = remaining \ {f}
\* exactly one of the three counters goes up, by one
CountsOnce ==
    \/ /\ totalProcessed' = totalProcessed + 1
       /\ totalSkipped' = totalSkipped /\ totalErrors' = totalErrors
    \/ /\ totalSkipped' = totalSkipped + 1
       /\ totalProcessed' = totalProcessed /\ totalErrors' = totalErrors
    \/ /\ totalErrors' = totalErrors + 1
       /\ totalProcessed' = totalProcessed /\ totalSkipped' = totalSkipped
EachVisitCountsOnce == \A f \in remaining : Visits(f) => CountsOnce
\* a visit that tried to generate the output of f and left none behind
FailsOn(f) ==
    /\ Visits(f)
    /\ OutputPath(driver, f) \notin fsFiles
    /\ OutputPath(driver, f) \notin fsFiles'
FailureRecorded ==
    \A f \in remaining :
        FailsOn(f) =>
            /\ totalErrors' = totalErrors + 1
            /\ dpc' = "loop" /\ pending' = pending
\* the counters cover the source files of every listing read so far, but
\* for those the loop has yet to visit
Accounted ==
    dpc \in {"loop", "done"} =>
        totalProcessed + totalSkipped + totalErrors
            + Cardinality(Sources(driver, remaining))
          = listed + (IF driver = "outline" THEN 0 ELSE failedReads)
Summary == dpc = "done" /\ remaining = {} /\ pending = <<>>

----------------------------------------------------------------------------
\* length = width * height * channels, the widths being in tenths
ExactSize(b) == b.length * 100 = b.width * b.height * b.channels

(* C22: every raw pixel buffer the tools build and hand on (the decoded    *)
(* input, the cutout's out, final and despeckled, the sticker's            *)
(* expandedData and borderData, the bevel's shadow and highlight layers)   *)
(* has length width*height*channels for the width, height and channel      *)
(* count declared with it, and every per-pixel mask or distance field has  *)
(* length width*height of the same canvas.                                 *)
C22_BufferSizes == \A n \in DOMAIN buffers : ExactSize(buffers[n])

----------------------------------------------------------------------------
PushedOnce == fpc # "idle" => \A i \in DOMAIN pushed : pushed[i] <= 1
SameAsStack ==
    fpc = "done" => work.bg = FloodFill(floodNear, floodW, floodH)

(* C23: the background set of the border flood fill does not depend on the *)
(* worklist discipline: taking the worklist as a stack (as the code does   *)
(* with pop), as a queue or in any other order gives the same bg mask for  *)
(* the same image and tolerance, and the fill ends with each pixel pushed  *)
(* at most once.                                                           *)
C23_OrderIndependent ==
    /\ []PushedOnce
    /\ []SameAsStack
    /\ <>(fpc = "done")

\* a fill of a 3x3 image that has ended, has reached the interior pixel
\* through its only near-white neighbour and has left other pixels out
C23_Witness ==
    /\ fpc = "done" /\ floodW = 3 /\ floodH = 3
    /\ work.bg[4] = 1 /\ pushed[4] = 1
    /\ Cardinality({i \in {1, 3, 5, 7} : floodNear[i] = 1}) = 1
    /\ \E i \in DOMAIN floodNear : work.bg[i] = 0

----------------------------------------------------------------------------
\* one 3x3 erosion of the mask b, a neighbour outside the image counting
\* as not background
Erode8(b, w, h) ==
    [i \in Pixels(w, h) |->
        IF \A dx \in {-1, 0, 1}, dy \in {-1, 0, 1} :
              LET x == XOf(i, w) + dx
                  y == YOf(i, w) + dy
              IN  x >= 0 /\ x < w /\ y >= 0 /\ y < h /\ b[y * w + x] = 1
        THEN 1 ELSE 0]
RECURSIVE ErodeTimes(_, _, _, _)
ErodeTimes(b, r, w, h) ==
    IF r = 0 THEN b ELSE ErodeTimes(Erode8(b, w, h), r - 1, w, h)
\* the pixels of the (2r+1) x (2r+1) window centred on i, as coordinates
WindowAt(i, r, w) ==
    {<<XOf(i, w) + dx, YOf(i, w) + dy>> : dx \in (0 - r) .. r, dy \in (0 - r) .. r}
WindowInBg(b, i, r, w, h) ==
    \A p \in WindowAt(i, r, w) :
        /\ p[1] >= 0 /\ p[1] < w /\ p[2] >= 0 /\ p[2] < h
        /\ b[p[2] * w + p[1]] = 1
\* the background mask the flood fill handed to the feather step
Flooded == FloodFill(nearWhite, W, H)

(* C24: the feather step of cutoutBorderOnly with radius r gives the mask  *)
(* of r successive 3x3 erosions of the background mask, neighbours outside *)
(* the image counting as non-background: the result is a subset of the     *)
(* background before the step, and a pixel stays background exactly when   *)
(* every pixel of the (2r+1)x(2r+1) window centred on it is inside the     *)
(* image and background.                                                   *)
C24_FeatherIsErosion ==
    pc = "feathered" =>
        /\ bg = ErodeTimes(Flooded, feather, W, H)
        /\ \A i \in Pixels(W, H) : bg[i] = 1 => Flooded[i] = 1
        /\ \A i \in Pixels(W, H) :
              bg[i] = 1 <=> WindowInBg(Flooded, i, feather, W, H)

\* radius 2 on an image with a dark pixel: the step removed background
\* pixels whose row and column are background throughout the window, and
\* kept one
C24_Witness ==
    /\ pc = "feathered" /\ feather = 2
    /\ \E i \in Pixels(W, H) : Flooded[i] = 0
    /\ \E i \in Pixels(W, H) : bg[i] = 1
    /\ \E i \in Pixels(W, H) :
          bg[i] = 0 /\ ContractCross(Flooded, feather, W, H)[i] = 1

-----------------------------------------------------------------------------
\* The hotspot store of the backend (backend/src/store.ts). A stored hotspot
\* is a record of id, label and description; the geometry fields are carried
\* along unchanged by every operation and are left out.

\* indices of the entries of a list with a given id
IndicesOf(list, id) == {k \in 1..Len(list) : list[k].id = id}

\* Array.prototype.findIndex, 1-based, 0 when nothing matches
findIndex(list, id) ==
    IF IndicesOf(list, id) = {} THEN 0
    ELSE CHOOSE k \in IndicesOf(list, id) : \A j \in IndicesOf(list, id) : k <= j

\* Array.prototype.filter(h => h.id !== id)
RECURSIVE filterOut(_, _)
filterOut(list, id) ==
    IF list = <<>> THEN <<>>
    ELSE IF Head(list).id = id THEN filterOut(Tail(list), id)
    ELSE <<Head(list)>> \o filterOut(Tail(list), id)

\* { ...entry, ...updates }: the fields of updates replace those of entry
Merged(entry, updates) ==
    [f \in DOMAIN entry |-> IF f \in DOMAIN updates THEN updates[f] ELSE entry[f]]

\* saveHotspot: the list with the new entry pushed, id from the clock
saveHotspot(list, now, hotspot) ==
    Append(list, [id |-> now, label |-> hotspot.label,
                  description |-> hotspot.description])

\* a variant of updateHotspot that adds an entry when there is none
upsertHotspot(list, id, updates) ==
    LET index == findIndex(list, id) IN
    IF index # 0
    THEN [ok |-> TRUE, wrote |-> TRUE,
          list |-> [list EXCEPT ![index] = Merged(list[index], updates)]]
    ELSE [ok |-> TRUE, wrote |-> TRUE,
          list |-> Append(list, [id |-> id, label |-> "", description |-> ""])]

\* updateHotspot: merges the updates into the first entry with that id
updateHotspot(list, id, updates) ==
    LET index == findIndex(list, id) IN
    IF index # 0
    THEN [ok |-> TRUE, wrote |-> TRUE,
          list |-> [list EXCEPT ![index] = Merged(list[index], updates)]]
    ELSE [ok |-> FALSE, wrote |-> FALSE, list |-> list]

\* deleteHotspot: writes the filtered list only when its length changed
deleteHotspot(list, id) ==
    LET filtered == filterOut(list, id) IN
    IF Len(filtered) # Len(list)
    THEN [ok |-> TRUE, wrote |-> TRUE, list |-> filtered]
    ELSE [ok |-> FALSE, wrote |-> FALSE, list |-> list]

\* POST /api/hotspots: label || 'New Hotspot'
RouteLabel(label) == IF label = "" THEN "New Hotspot" ELSE label

-----------------------------------------------------------------------------
\* The hotspot editor of the frontend: App's state (hotspots, activeTool),
\* RightEditPanel's edit form, window.replacingHotspot, and the backend's
\* stored list behind the API. One action per handler; every API call either
\* reaches the backend or fails (network error, or an error response).

MaxInitialHotspots == 2
MaxCreated == 2
MaxFailures == 1
MaxTyped == 1

\* labels the user can type into the edit form
TypedLabels == {"", "Renamed"}

InitialHotspots ==
    <<[id |-> 1, label |-> "Castle", description |-> "castle"],
      [id |-> 2, label |-> "Bridge", description |-> "bridge"],
      [id |-> 3, label |-> "Tower", description |-> "tower"]>>

\* the hotspot LassoSelection builds from the saved selection
LassoHotspot(selectionId) ==
    [id |-> 0 - selectionId, label |-> "Selection",
     description |-> "Lasso selection"]

\* a variant that always puts the hotspot at the end
SplicedAtEnd(list, index, h) == Append(list, h)

\* newHotspots.splice(index, 0, h) with a 0-based index
Spliced(list, index, h) ==
    LET k == IF index < Len(list) THEN index ELSE Len(list) IN
    SubSeq(list, 1, k) \o <<h>> \o SubSeq(list, k + 1, Len(list))

\* hotspots.map(h => h.id === editingHotspot.id ? editingHotspot : h)
Replaced(list, e) ==
    [k \in 1..Len(list) |-> IF list[k].id = e.id THEN e ELSE list[k]]

ListShown == activeTool \in {"config-highlights", "lasso"}

\* what is kept of a handler that called the API, and of a creation
ApiCall(op, ok, h) == [NoHandler EXCEPT !.op = op, !.ok = ok, !.made = h]
Ran(op, ok, made) ==
    [op |-> op, ok |-> ok, before |-> hotspots, rec |-> replacingHotspot,
     from |-> lassoFrom, fresh |-> undisturbed, made |-> made]

InitEditor ==
    /\ CutoutIdle /\ ChamferIdle /\ StickerIdle /\ BevelIdle /\ ArgsIdle
    /\ StoreIdle
    /\ BatchIdle /\ SizesIdle /\ FloodIdle
    /\ \E n \in 0..MaxInitialHotspots :
          /\ hotspots = SubSeq(InitialHotspots, 1, n)
          /\ stored = SubSeq(InitialHotspots, 1, n)
    /\ activeTool = "none"
    /\ editingHotspot = NoHotspot
    /\ replacingHotspot = NoReplacement
    /\ nextId = MaxInitialHotspots + 1
    /\ created = 0
    /\ lassoFrom = "none"
    /\ undisturbed = FALSE
    /\ failures = 0 /\ typed = 0
    /\ last = NoHandler

\* handleToolClick('config-highlights'): toggles the tool
handleToolClick ==
    /\ activeTool # "idle"
    /\ activeTool' = IF activeTool = "config-highlights" THEN "none"
                     ELSE "config-highlights"
    /\ lassoFrom' = "none"
    /\ last' = NoHandler
    /\ UNCHANGED <<hotspots, editingHotspot, replacingHotspot, stored, nextId,
                   created, undisturbed, failures, typed>>
    /\ UNCHANGED notEditor

\* the '+ Add New' button: selects the lasso (no change when it is active)
AddNew ==
    /\ ListShown
    /\ activeTool' = "lasso"
    /\ lassoFrom' = IF activeTool = "lasso" THEN lassoFrom ELSE "addNew"
    /\ last' = NoHandler
    /\ UNCHANGED <<hotspots, editingHotspot, replacingHotspot, stored, nextId,
                   created, undisturbed, failures, typed>>
    /\ UNCHANGED notEditor

\* handleEditHotspot: the edit form gets a copy of the hotspot
handleEditHotspot ==
    /\ ListShown
    /\ \E k \in 1..Len(hotspots) :
          /\ hotspots[k].id # editingHotspot.id
          /\ editingHotspot' = hotspots[k]
    /\ last' = NoHandler
    /\ UNCHANGED <<hotspots, activeTool, replacingHotspot, stored, nextId,
                   created, lassoFrom, undisturbed,
                   failures, typed>>
    /\ UNCHANGED notEditor

\* the label input's onChange
TypeLabel ==
    /\ ListShown
    /\ editingHotspot # NoHotspot
    /\ \E l \in TypedLabels :
          /\ l # editingHotspot.label
          /\ editingHotspot' = [editingHotspot EXCEPT !.label = l]
    /\ typed < MaxTyped
    /\ typed' = typed + 1
    /\ last' = NoHandler
    /\ UNCHANGED <<hotspots, activeTool, replacingHotspot, stored, nextId,
                   created, lassoFrom, undisturbed, failures>>
    /\ UNCHANGED notEditor

\* the Cancel button of the edit form
CancelEdit ==
    /\ ListShown
    /\ editingHotspot # NoHotspot
    /\ editingHotspot' = NoHotspot
    /\ last' = NoHandler
    /\ UNCHANGED <<hotspots, activeTool, replacingHotspot, stored, nextId,
                   created, lassoFrom, undisturbed,
                   failures, typed>>
    /\ UNCHANGED notEditor

\* handleSaveHotspot: App's onHotspotUpdate swallows a failed call, then the
\* panel puts the edited hotspot into the list
handleSaveHotspot ==
    /\ ListShown
    /\ editingHotspot # NoHotspot
    /\ \E reached \in BOOLEAN :
          LET r == updateHotspot(stored, editingHotspot.id,
                                 [label |-> editingHotspot.label]) IN
          /\ reached \/ failures < MaxFailures
          /\ failures' = IF reached THEN failures ELSE failures + 1
          /\ stored' = IF reached THEN r.list ELSE stored
          /\ last' = ApiCall("save", reached /\ r.ok, editingHotspot)
    /\ hotspots' = Replaced(hotspots, editingHotspot)
    /\ editingHotspot' = NoHotspot
    /\ undisturbed' = FALSE
    /\ UNCHANGED <<activeTool, replacingHotspot, nextId, created, lassoFrom,
                   typed>>
    /\ UNCHANGED notEditor

\* handleDeleteHotspot: App's onHotspotDelete filters the list on success and
\* swallows a failed call, then the panel filters the list
handleDeleteHotspot ==
    /\ ListShown
    /\ \E k \in 1..Len(hotspots), reached \in BOOLEAN :
          LET r == deleteHotspot(stored, hotspots[k].id) IN
          /\ reached \/ failures < MaxFailures
          /\ failures' = IF reached THEN failures ELSE failures + 1
          /\ hotspots[k].id # editingHotspot.id
          /\ stored' = IF reached THEN r.list ELSE stored
          /\ hotspots' = filterOut(hotspots, hotspots[k].id)
          /\ last' = ApiCall("delete", reached /\ r.ok, hotspots[k])
    /\ undisturbed' = FALSE
    /\ UNCHANGED <<activeTool, editingHotspot, replacingHotspot, nextId,
                   created, lassoFrom, typed>>
    /\ UNCHANGED notEditor

\* the 're-select area' button of the edit form
Reselect ==
    /\ ListShown
    /\ editingHotspot # NoHotspot
    /\ \E reached \in BOOLEAN :
          LET r == deleteHotspot(stored, editingHotspot.id) IN
          /\ reached \/ failures < MaxFailures
          /\ failures' = IF reached THEN failures ELSE failures + 1
          /\ stored' = IF reached THEN r.list ELSE stored
          /\ last' = ApiCall("reselect", reached /\ r.ok, editingHotspot)
    /\ hotspots' = filterOut(hotspots, editingHotspot.id)
    /\ replacingHotspot' =
          [set |-> TRUE, id |-> editingHotspot.id,
           label |-> editingHotspot.label,
           description |-> editingHotspot.description,
           originalIndex |-> findIndex(hotspots, editingHotspot.id) - 1]
    /\ editingHotspot' = NoHotspot
    /\ activeTool' = "lasso"
    /\ lassoFrom' = "reselect"
    /\ undisturbed' = TRUE
    /\ UNCHANGED <<nextId, created, typed>>
    /\ UNCHANGED notEditor

\* LassoSelection's handleMouseUp with a saved selection, then App's
\* handleHotspotCreated
handleHotspotCreated ==
    /\ activeTool = "lasso"
    /\ created < MaxCreated
    /\ \E reached \in BOOLEAN :
          LET newHotspot == LassoHotspot(nextId)
              hotspotData ==
                  [label |-> RouteLabel(IF replacingHotspot.set
                                        THEN replacingHotspot.label
                                        ELSE newHotspot.label),
                   description |-> IF replacingHotspot.set
                                   THEN replacingHotspot.description
                                   ELSE newHotspot.description]
              saved == saveHotspot(stored, nextId + 1, hotspotData)
              savedHotspot == saved[Len(saved)]
          IN  IF reached
              THEN /\ failures' = failures
                   /\ stored' = saved
                   /\ hotspots' =
                         IF replacingHotspot.set
                         THEN Spliced(hotspots, replacingHotspot.originalIndex,
                                      savedHotspot)
                         ELSE Append(hotspots, savedHotspot)
                   /\ replacingHotspot' = NoReplacement
                   /\ last' = Ran("created", TRUE, savedHotspot)
              ELSE /\ failures < MaxFailures
                   /\ failures' = failures + 1
                   /\ stored' = stored
                   /\ hotspots' = Append(hotspots, newHotspot)
                   /\ replacingHotspot' = replacingHotspot
                   /\ last' = Ran("created", FALSE, newHotspot)
    /\ activeTool' = "config-highlights"
    /\ nextId' = nextId + 2
    /\ created' = created + 1
    /\ lassoFrom' = "none"
    /\ undisturbed' = FALSE
    /\ UNCHANGED <<editingHotspot, typed>>
    /\ UNCHANGED notEditor

\* LassoSelection's handleMouseUp when saving the selection fails: the
\* drawing is dropped and no hotspot is created
LassoFails ==
    /\ activeTool = "lasso"
    /\ last.op # "lassoFailed"
    /\ last' = ApiCall("lassoFailed", FALSE, NoHotspot)
    /\ UNCHANGED <<hotspots, activeTool, editingHotspot, replacingHotspot,
                   stored, nextId, created, lassoFrom, undisturbed,
                   failures, typed>>
    /\ UNCHANGED notEditor

NextEditor ==
    \/ handleToolClick
    \/ AddNew
    \/ handleEditHotspot
    \/ TypeLabel
    \/ CancelEdit
    \/ handleSaveHotspot
    \/ handleDeleteHotspot
    \/ Reselect
    \/ handleHotspotCreated
    \/ LassoFails

SpecEditor == InitEditor /\ [][NextEditor]_vars

-----------------------------------------------------------------------------
\* The backend server: the routes of the API (unnamed/part_007) on top of the
\* store (backend/src/store.ts), serving several requests at a time in one
\* process. A route handler runs up to its `await store.method(...)`; the
\* store methods contain no await and use readFileSync and writeFileSync, so
\* a method's load, change and write happen within that step. The response is
\* sent in a later step. The clock may or may not advance between requests.

MaxRequests == 3
FirstMs == 2
MaxMs == 3

PostHotspot == "POST /api/hotspots"
PutHotspot == "PUT /api/hotspots/:id"
DeleteHotspot == "DELETE /api/hotspots/:id"
PostSelection == "POST /api/selections"
DeleteSelection == "DELETE /api/selections/:id"
ClearSelections == "DELETE /api/selections"
\* clearAllHotspots has no route: a call from elsewhere in the process
ClearHotspots == "store.clearAllHotspots()"

\* the file a route works on
Coll(kind) ==
    IF kind \in {PostSelection, DeleteSelection, ClearSelections}
    THEN "selections" ELSE "hotspots"

\* saveSelection: the list with the new selection pushed, id from the clock
saveSelection(list, t, selection) ==
    Append(list, [id |-> t, points |-> selection.points])

\* deleteSelection: writes the filtered list only when its length changed
deleteSelection(list, id) ==
    LET filtered == filterOut(list, id) IN
    IF Len(filtered) # Len(list)
    THEN [ok |-> TRUE, wrote |-> TRUE, list |-> filtered]
    ELSE [ok |-> FALSE, wrote |-> FALSE, list |-> list]

\* clearAllHotspots, clearAllSelections: write the empty list
clearAll(list) == [ok |-> TRUE, wrote |-> TRUE, list |-> <<>>]

\* request bodies of PUT /api/hotspots/:id: a rename, and a body with an id
UpdateBodies == {[label |-> "Renamed"], [id |-> 1]}

\* ids a client can name
TargetIds == 1 .. FirstMs

Request(kind, id, label, updates) ==
    [kind |-> kind, id |-> id, label |-> label, updates |-> updates,
     pc |-> "received", seen |-> <<>>, at |-> 0, ok |-> FALSE,
     wrote |-> FALSE, before |-> <<>>, after |-> <<>>, made |-> 0,
     status |-> 0]

Requests ==
    {Request(PostHotspot, 0, "Gate", [label |-> "Gate"])}
    \cup {Request(PutHotspot, id, "", u) : id \in TargetIds, u \in UpdateBodies}
    \cup {Request(k, id, "", [label |-> ""]) :
             k \in {DeleteHotspot, DeleteSelection}, id \in TargetIds}
    \cup {Request(k, 0, "", [label |-> ""]) :
             k \in {PostSelection, ClearSelections, ClearHotspots}}

\* a variant of the load that works on the list as it was when the request
\* arrived
LoadedOnArrival(r, list) == r.seen

\* loadHotspots, loadSelections: the list on disk when the method is called
Loaded(r, list) == list

\* the store method a route calls, on a loaded list, at time t
StoreCall(list, r, t) ==
    CASE r.kind = PostHotspot ->
           [ok |-> TRUE, wrote |-> TRUE, made |-> t,
            list |-> saveHotspot(list, t, [label |-> RouteLabel(r.label),
                                           description |-> "area"])]
      [] r.kind = PostSelection ->
           [ok |-> TRUE, wrote |-> TRUE, made |-> t,
            list |-> saveSelection(list, t, [points |-> "lasso"])]
      [] r.kind = PutHotspot ->
           [made |-> 0] @@ updateHotspot(list, r.id, r.updates)
      [] r.kind = DeleteHotspot -> [made |-> 0] @@ deleteHotspot(list, r.id)
      [] r.kind = DeleteSelection -> [made |-> 0] @@ deleteSelection(list, r.id)
      [] OTHER -> [made |-> 0] @@ clearAll(list)

\* the status a route answers with
Status(r) ==
    CASE r.kind \in {PostHotspot, PostSelection} -> 201
      [] r.kind \in {PutHotspot, DeleteHotspot, DeleteSelection} ->
           IF r.ok THEN 200 ELSE 404
      [] OTHER -> 200

InitialDisks ==
    {NoFiles,
     [hotspots |-> <<[id |-> 1, label |-> "Castle", description |-> "area"]>>,
      selections |-> <<[id |-> 1, points |-> "lasso"]>>]}

InitStore ==
    /\ CutoutIdle /\ ChamferIdle /\ StickerIdle /\ BevelIdle /\ ArgsIdle
    /\ BatchIdle /\ SizesIdle /\ FloodIdle /\ EditorIdle
    /\ disk \in InitialDisks
    /\ disk0 = disk
    /\ clockMs = FirstMs
    /\ reqs = <<>>
    /\ served = <<>>
    /\ writes = 0

\* a request arrives and its body is parsed (or a caller is about to call)
Receive ==
    /\ clockMs # 0
    /\ Len(reqs) < MaxRequests
    /\ \E r \in Requests :
          reqs' = Append(reqs, [r EXCEPT !.seen = disk[Coll(r.kind)]])
    /\ UNCHANGED <<disk, clockMs, served, writes, disk0>>
    /\ UNCHANGED notStore

\* the route handler of request i, up to the end of its store call
Serve(i) ==
    LET r == reqs[i]
        c == Coll(r.kind)
        list == Loaded(r, disk[c])
        res == StoreCall(list, r, clockMs)
    IN  /\ disk' = IF res.wrote THEN [disk EXCEPT ![c] = res.list] ELSE disk
        /\ writes' = IF res.wrote THEN writes + 1 ELSE writes
        /\ reqs' = [reqs EXCEPT ![i] =
                       [r EXCEPT !.pc = "awaited", !.at = clockMs,
                                 !.ok = res.ok, !.wrote = res.wrote,
                                 !.before = list, !.after = res.list,
                                 !.made = res.made]]
        /\ served' = Append(served, i)
        /\ UNCHANGED <<clockMs, disk0>>
        /\ UNCHANGED notStore

\* request i has arrived at the route and has not called the store yet
AtRoute(i, kind) == reqs[i].pc = "received" /\ reqs[i].kind = kind

PostHotspotRoute ==
    \E i \in 1..Len(reqs) : AtRoute(i, PostHotspot) /\ Serve(i)
PutHotspotRoute ==
    \E i \in 1..Len(reqs) : AtRoute(i, PutHotspot) /\ Serve(i)
DeleteHotspotRoute ==
    \E i \in 1..Len(reqs) : AtRoute(i, DeleteHotspot) /\ Serve(i)
PostSelectionRoute ==
    \E i \in 1..Len(reqs) : AtRoute(i, PostSelection) /\ Serve(i)
DeleteSelectionRoute ==
    \E i \in 1..Len(reqs) : AtRoute(i, DeleteSelection) /\ Serve(i)
ClearSelectionsRoute ==
    \E i \in 1..Len(reqs) : AtRoute(i, ClearSelections) /\ Serve(i)
ClearHotspotsCall ==
    \E i \in 1..Len(reqs) : AtRoute(i, ClearHotspots) /\ Serve(i)

\* the rest of a route handler, after the await: the response
Respond ==
    /\ \E i \in 1..Len(reqs) :
          /\ reqs[i].pc = "awaited"
          /\ reqs' = [reqs EXCEPT ![i] =
                         [reqs[i] EXCEPT !.pc = "responded",
                                         !.status = Status(reqs[i])]]
    /\ UNCHANGED <<disk, clockMs, served, writes, disk0>>
    /\ UNCHANGED notStore

\* a millisecond passes
Tick ==
    /\ clockMs # 0
    /\ clockMs < MaxMs
    /\ clockMs' = clockMs + 1
    /\ UNCHANGED <<disk, reqs, served, writes, disk0>>
    /\ UNCHANGED notStore

NextStore ==
    \/ Receive
    \/ PostHotspotRoute
    \/ PutHotspotRoute
    \/ DeleteHotspotRoute
    \/ PostSelectionRoute
    \/ DeleteSelectionRoute
    \/ ClearSelectionsRoute
    \/ ClearHotspotsCall
    \/ Respond
    \/ Tick

SpecStore == InitStore /\ [][NextStore]_vars

-----------------------------------------------------------------------------
\* C25: re-select replaces in place.

\* the last handler created a hotspot through a successful save, for the
\* record a re-select left, with no list operation in between
ReplacedAfterReselect ==
    /\ last.op = "created" /\ last.ok
    /\ last.rec.set /\ last.from = "reselect" /\ last.fresh

\* the new hotspot is at the recorded index, the old id is gone, the others
\* are in the order they had, the record is cleared, the tool is set
PlacedAtIndex ==
    LET i == last.rec.originalIndex IN
    /\ i < Len(hotspots)
    /\ hotspots[i + 1] = last.made
    /\ last.made.description = last.rec.description
    /\ IndicesOf(hotspots, last.rec.id) = {}
    /\ filterOut(hotspots, last.made.id) = last.before
    /\ replacingHotspot = NoReplacement
    /\ activeTool = "config-highlights"

-----------------------------------------------------------------------------
\* C26: the replacement record serves one creation.

\* C26: a hotspot created through 'Add New' is appended at the end of the
\* list with its own label and description, also when an earlier re-select
\* was followed by a cancelled lasso or a failed save.
C26_AddNewAppends ==
    (last.op = "created" /\ last.from = "addNew") =>
        /\ hotspots = Append(last.before, last.made)
        /\ last.made.label = LassoHotspot(1).label
        /\ last.made.description = LassoHotspot(1).description

-----------------------------------------------------------------------------
\* C29: the displayed list and the backend agree.

Shown(list) == {<<list[k].id, list[k].label>> : k \in 1..Len(list)}

\* C29: the displayed list and the backend's list hold the same hotspot ids
\* and labels after every handler (a delete or rename changes the displayed
\* list only when the backend call succeeded).
C29_ListMatchesBackend == Shown(hotspots) = Shown(stored)

-----------------------------------------------------------------------------
\* C27: deletes and updates by id.

WasServed(r) == r.pc \in {"awaited", "responded"}

\* the request found no entry with its id: false, nothing written, 404
MissingId(r) ==
    /\ ~r.ok /\ ~r.wrote /\ r.after = r.before
    /\ r.pc = "responded" => r.status = 404

\* the delete removed the entries with the id, and only them
DeletedOnly(r) ==
    LET Keeps(h) == h.id # r.id IN
    /\ r.ok /\ r.wrote
    /\ r.after = SelectSeq(r.before, Keeps)
    /\ r.pc = "responded" => r.status = 200

\* the update changed the first entry with the id, and nothing else
UpdatedOnly(r) ==
    /\ r.ok /\ r.wrote
    /\ Len(r.after) = Len(r.before)
    /\ \E k \in 1..Len(r.before) :
          /\ r.before[k].id = r.id
          /\ \A j \in 1..(k - 1) : r.before[j].id # r.id
          /\ \A j \in 1..Len(r.before) : j # k => r.after[j] = r.before[j]
          /\ \A f \in DOMAIN r.before[k] :
                r.after[k][f] = IF f \in DOMAIN r.updates THEN r.updates[f]
                                ELSE r.before[k][f]
    /\ r.pc = "responded" => r.status = 200

\* C27: deleteHotspot, deleteSelection and updateHotspot with an id that is
\* not in the store return false without writing, and the route answers 404;
\* with an id that is in the store, delete removes exactly the entries with
\* that id, and update changes only the targeted entry, leaving the other
\* entries and their order unchanged.
C27_ByIdOperations ==
    \A i \in 1..Len(reqs) :
        LET r == reqs[i] IN
        (WasServed(r) /\ r.kind \in {PutHotspot, DeleteHotspot, DeleteSelection})
        => IF IndicesOf(r.before, r.id) = {} THEN MissingId(r)
           ELSE IF r.kind = PutHotspot THEN UpdatedOnly(r)
           ELSE DeletedOnly(r)

\* an update of a missing id was answered 404, and a delete took one of two
\* hotspots out
C27_Witness ==
    /\ \E i \in 1..Len(reqs) :
          /\ reqs[i].kind = PutHotspot /\ reqs[i].status = 404
    /\ \E i \in 1..Len(reqs) :
          /\ reqs[i].kind = DeleteHotspot /\ reqs[i].status = 200
          /\ Len(reqs[i].before) = 2 /\ Len(reqs[i].after) = 1

-----------------------------------------------------------------------------
\* C28: requests in flight at the same time.

\* the files after the first k store calls, made one at a time
RECURSIVE Replay(_)
Replay(k) ==
    IF k = 0 THEN disk0
    ELSE LET prev == Replay(k - 1)
             r == reqs[served[k]]
             res == StoreCall(prev[Coll(r.kind)], r, r.at)
         IN  IF res.wrote THEN [prev EXCEPT ![Coll(r.kind)] = res.list]
             ELSE prev

\* the files, and every request's result, are those of the serial run
Serial ==
    /\ disk = Replay(Len(served))
    /\ \A k \in 1..Len(served) :
          LET r == reqs[served[k]]
              res == StoreCall(Replay(k - 1)[Coll(r.kind)], r, r.at)
          IN  r.ok = res.ok /\ r.after = res.list

\* a later store call that names the id, or clears the file
Overwritten(k, c, ids) ==
    \E j \in (k + 1)..Len(served) :
        LET q == reqs[served[j]] IN
        /\ Coll(q.kind) = c
        /\ \/ q.kind \in {ClearHotspots, ClearSelections}
           \/ q.kind \in {PutHotspot, DeleteHotspot, DeleteSelection}
              /\ q.id \in ids

\* an acknowledged save's entry is on disk unless a later call took it
SavesKept ==
    \A k \in 1..Len(served) :
        LET r == reqs[served[k]] IN
        (r.pc = "responded" /\ r.status = 201) =>
            \/ \E n \in 1..Len(disk[Coll(r.kind)]) :
                  disk[Coll(r.kind)][n] = r.after[Len(r.after)]
            \/ Overwritten(k, Coll(r.kind), {r.made})

\* an acknowledged update's entry is on disk unless a later call took it
UpdatesKept ==
    \A k \in 1..Len(served) :
        LET r == reqs[served[k]]
            new == r.after[findIndex(r.before, r.id)]
        IN  (r.kind = PutHotspot /\ r.pc = "responded" /\ r.status = 200) =>
                \/ \E n \in 1..Len(disk.hotspots) : disk.hotspots[n] = new
                \/ Overwritten(k, "hotspots", {r.id, new.id})

\* C28: whatever the interleaving of the requests in flight, the files are
\* what executing the requests one at a time in some order gives, and no
\* acknowledged save or update is lost.
C28_Serialisable == Serial /\ SavesKept /\ UpdatesKept

\* three requests arrived before any was served, two hotspots were saved and
\* one renamed, and all three were acknowledged
C28_Witness ==
    /\ Len(reqs) = 3
    /\ \A i \in 1..3 : reqs[i].pc = "responded" /\ reqs[i].seen = disk0.hotspots
    /\ \E i, j, k \in 1..3 :
          /\ i # j
          /\ reqs[i].kind = PostHotspot /\ reqs[j].kind = PostHotspot
          /\ reqs[k].kind = PutHotspot /\ reqs[k].status = 200
    /\ Len(disk.hotspots) = Len(disk0.hotspots) + 2

-----------------------------------------------------------------------------
\* C30: ids are unique.

Distinct(list) ==
    \A j, k \in 1..Len(list) : j # k => list[j].id # list[k].id

\* C30: no two hotspots in the store share an id, and no two selections do
\* (the ids saveHotspot and saveSelection assign are distinct, and
\* updateHotspot never changes the id of the entry it updates).
C30_UniqueIds == Distinct(disk.hotspots) /\ Distinct(disk.selections)

====
